---- MODULE Spec2Model ----
(***************************************************************************)
(* Reflection engine of sqlalchemy_redshift/dialect.py.                    *)
(*                                                                         *)
(* Text (identifiers, schema strings, constraint definitions) is a         *)
(* sequence of one-character strings, so that quoting, splitting and the   *)
(* regular expressions act on characters as they do in the source.         *)
(* Python's None is the one-element sequence None, which is no text.       *)
(***************************************************************************)
EXTENDS Integers, Sequences, FiniteSets, TLC

----------------------------------------------------------------------------
(* Characters and character classes of the regular expressions *)

Q == "\""

None == <<"None">>

\* None where the value is otherwise a string (a type name, a default)
PyNone == "None"

Truthy(x) == x # PyNone /\ x # ""

Letters == {"a", "b", "c", "d", "g", "k", "p", "s", "t", "u", "v", "x", "y",
            "A", "C", "E", "F", "G", "I", "K", "M", "N", "O", "P", "R", "S", "Y"}

Digits == {"1", "2"}

IsWs(c) == c = " "

IsIdStart(c) == c \in Letters \cup {"_"}

IsWord(c) == c \in Letters \cup Digits \cup {"_", "$"}

W_PRIMARY == <<"P", "R", "I", "M", "A", "R", "Y">>

W_KEY == <<"K", "E", "Y">>

W_FOREIGN_KEY == <<"F", "O", "R", "E", "I", "G", "N", " ", "K", "E", "Y">>

W_REFERENCES == <<"R", "E", "F", "E", "R", "E", "N", "C", "E", "S">>

W_PKEY == <<"_", "p", "k", "e", "y">>

----------------------------------------------------------------------------
(* Identifier/Key model *)

startswithQ(part) == Len(part) >= 1 /\ part[1] = Q

endswithQ(part) == Len(part) >= 1 /\ part[Len(part)] = Q

\* RelationKey._unquote: part[1:-1] when part starts and ends with '"'
_unquote(part) ==
    IF part # None /\ startswithQ(part) /\ endswithQ(part)
    THEN SubSeq(part, 2, Len(part) - 1)
    ELSE part

\* RedshiftDialectMixin.unquote
unquote(text) ==
    IF text = None THEN None
    ELSE IF startswithQ(text) /\ endswithQ(text)
         THEN SubSeq(text, 2, Len(text) - 1)
         ELSE text

\* RelationKey.__new__ with a connection: the schema defaults to the
\* connection's default schema
DefaultSchema == <<"p">>

RelationKey(name, schema) ==
    [name |-> name, schema |-> IF schema = None THEN DefaultSchema ELSE schema]

\* RelationKey.unquoted
unquoted(key) ==
    [name |-> _unquote(key.name), schema |-> _unquote(key.schema)]

Contains(s, c) == \E i \in 1..Len(s) : s[i] = c

\* index of the first c in s at or after i, Len(s)+1 when there is none
RECURSIVE IndexFrom(_, _, _)
IndexFrom(s, c, i) ==
    IF i > Len(s) THEN Len(s) + 1
    ELSE IF s[i] = c THEN i
    ELSE IndexFrom(s, c, i + 1)

\* str.split(c)[0] and str.split(c)[1] (the latter only when c occurs in s)
SplitFirst(s, c) == SubSeq(s, 1, IndexFrom(s, c, 1) - 1)

SplitSecond(s, c) ==
    LET i == IndexFrom(s, c, 1)
    IN  SubSeq(s, i + 1, IndexFrom(s, c, i + 1) - 1)

\* a parse_datashare that does not look for double quotes
parse_datashare_any_dot(schema) ==
    IF schema = None \/ schema = <<>>
    THEN [datashare |-> None, schema |-> schema, has_datashare |-> FALSE]
    ELSE IF ~Contains(schema, ".")
    THEN [datashare |-> None, schema |-> schema, has_datashare |-> FALSE]
    ELSE [datashare |-> SplitFirst(schema, "."),
          schema |-> SplitSecond(schema, "."),
          has_datashare |-> TRUE]

\* parse_datashare: (datashare, schema, found_datashare)
parse_datashare(schema) ==
    IF schema = None \/ schema = <<>>
    THEN [datashare |-> None, schema |-> schema, has_datashare |-> FALSE]
    ELSE IF ~(Contains(schema, ".") /\ ~Contains(schema, Q))
    THEN [datashare |-> None, schema |-> schema, has_datashare |-> FALSE]
    ELSE [datashare |-> SplitFirst(schema, "."),
          schema |-> SplitSecond(schema, "."),
          has_datashare |-> TRUE]

----------------------------------------------------------------------------
(* Constraint-text parser: the regular expressions, matched as re does.    *)
(* A position is the index of the next character to read; 0 is "no match". *)
(* Every repetition is greedy; no shorter repetition lets a later part     *)
(* match, since a repetition stops only where its next round cannot start. *)

RECURSIVE SkipWs(_, _)
SkipWs(s, i) ==
    IF i >= 1 /\ i <= Len(s) /\ IsWs(s[i]) THEN SkipWs(s, i + 1) ELSE i

RECURSIVE SkipWord(_, _)
SkipWord(s, i) == IF i <= Len(s) /\ IsWord(s[i]) THEN SkipWord(s, i + 1) ELSE i

\* a literal word at position i
Lit(s, i, w) ==
    IF i >= 1 /\ i + Len(w) - 1 <= Len(s) /\ SubSeq(s, i, i + Len(w) - 1) = w
    THEN i + Len(w)
    ELSE 0

\* a greedy repetition: the end e of one round, or of the rounds after it
Greedy(e, e2) == IF e2 = 0 THEN e ELSE e2

\* "[^"]*" (min = 0) or "[^"]+" (min = 1) at position i; j is the next '"'
QuotedClose(s, i, min, j) ==
    IF j <= Len(s) /\ j - i - 1 >= min THEN j + 1 ELSE 0

QuotedEnd(s, i, min) ==
    IF i >= 1 /\ i <= Len(s) /\ s[i] = Q
    THEN QuotedClose(s, i, min, IndexFrom(s, Q, i + 1))
    ELSE 0

\* ("[^"]*")+ or ("[^"]+")+
RECURSIVE QuotedPlus(_, _, _)
QuotedMore(s, e, min) == IF e = 0 THEN 0 ELSE Greedy(e, QuotedPlus(s, e, min))

QuotedPlus(s, i, min) == QuotedMore(s, QuotedEnd(s, i, min), min)

\* [_a-zA-Z][\w$]* | ("[^"]*")+
Ident(s, i, min) ==
    IF i < 1 \/ i > Len(s) THEN 0
    ELSE IF IsIdStart(s[i]) THEN SkipWord(s, i + 1)
    ELSE QuotedPlus(s, i, min)

\* ,?
Comma(s, k) == IF k <= Len(s) /\ s[k] = "," THEN k + 1 ELSE k

\* one round of (?: \s* identifier \s* ,? )
ColIterEnd(s, k) == IF k = 0 THEN 0 ELSE Comma(s, SkipWs(s, k))

ColIter(s, i, min) == ColIterEnd(s, Ident(s, SkipWs(s, i), min))

\* (?: ... )+
RECURSIVE ColGroup(_, _, _)
ColMore(s, e, min) == IF e = 0 THEN 0 ELSE Greedy(e, ColGroup(s, e, min))

ColGroup(s, i, min) == ColMore(s, IF i = 0 THEN 0 ELSE ColIter(s, i, min), min)

RECURSIVE Reversed(_)
Reversed(s) ==
    IF Len(s) = 0 THEN <<>> ELSE Append(Reversed(Tail(s)), Head(s))

\* SQL_IDENTIFIER_RE.findall(s): the non-overlapping matches, left to right
RECURSIVE FindAllFrom(_, _)
FindAllAt(s, i, e) ==
    IF e = 0 THEN FindAllFrom(s, i + 1)
    ELSE <<SubSeq(s, i, e - 1)>> \o FindAllFrom(s, e)

FindAllFrom(s, i) ==
    IF i > Len(s) THEN <<>> ELSE FindAllAt(s, i, Ident(s, i, 1))

\* the matches in the opposite order
findall_right_to_left(s) == Reversed(FindAllFrom(s, 1))

SQL_IDENTIFIER_RE_findall(s) == FindAllFrom(s, 1)

NoMatch == [matched |-> FALSE]

\* PRIMARY_KEY_RE.match(condef): i is the place after "(", g the end of the
\* columns group
PkClose(s, i, g) ==
    IF Lit(s, SkipWs(s, g), <<")">>) = 0 THEN NoMatch
    ELSE [matched |-> TRUE, columns |-> SubSeq(s, i, g - 1)]

PkColumns(s, i) == PkClose(s, i, ColGroup(s, i, 0))

PRIMARY_KEY_RE_match(s) ==
    PkColumns(s, Lit(s, SkipWs(s, Lit(s, SkipWs(s, Lit(s, 1, W_PRIMARY)),
                                      W_KEY)), <<"(">>))

\* the tail of FOREIGN_KEY_RE from the referred table on: the table is
\* s[i..t-1], p the place after "(", g the end of the referred columns
FkTailClose(s, i, t, p, g) ==
    IF Lit(s, SkipWs(s, g), <<")">>) = 0 THEN NoMatch
    ELSE [matched |-> TRUE,
          referred_table |-> SubSeq(s, i, t - 1),
          referred_columns |-> SubSeq(s, p, g - 1)]

FkTailColumns(s, i, t, p) == FkTailClose(s, i, t, p, ColGroup(s, p, 1))

FkTailTable(s, i, t) == FkTailColumns(s, i, t, Lit(s, SkipWs(s, t), <<"(">>))

FkTail(s, i) == FkTailTable(s, i, Ident(s, i, 0))

\* the optional "schema." is tried first, then the match without it
FkResult(s, i, g, r, sc, withSchema, without) ==
    IF withSchema.matched
    THEN [matched |-> TRUE, columns |-> SubSeq(s, i, g - 1),
          referred_schema |-> SubSeq(s, r, sc - 1),
          referred_table |-> withSchema.referred_table,
          referred_columns |-> withSchema.referred_columns]
    ELSE IF without.matched
    THEN [matched |-> TRUE, columns |-> SubSeq(s, i, g - 1),
          referred_schema |-> None,
          referred_table |-> without.referred_table,
          referred_columns |-> without.referred_columns]
    ELSE NoMatch

FkSchema(s, i, g, r, sc) ==
    FkResult(s, i, g, r, sc, FkTail(s, Lit(s, sc, <<".">>)), FkTail(s, r))

FkReferences(s, i, g, r) == FkSchema(s, i, g, r, Ident(s, r, 0))

FkColumns(s, i, g) ==
    FkReferences(s, i, g,
        SkipWs(s, Lit(s, SkipWs(s, Lit(s, SkipWs(s, g), <<")">>)),
                      W_REFERENCES)))

FkOpen(s, i) == FkColumns(s, i, ColGroup(s, i, 1))

\* FOREIGN_KEY_RE.match(condef)
FOREIGN_KEY_RE_match(s) ==
    FkOpen(s, Lit(s, SkipWs(s, Lit(s, 1, W_FOREIGN_KEY)), <<"(">>))

----------------------------------------------------------------------------
(* The catalog the queries run against.  Type text "name(mod)[]" is held   *)
(* as [name, mod, array]; name is the dotted type name as its tokens.      *)

S == <<"s">>

SQ == <<Q, "s", Q>>

E == <<"x">>

DS == <<"d", ".", "s">>

T == <<"t">>

U == <<"u">>

V == <<"v">>

Ty(name, mod) == [name |-> name, mod |-> mod, array |-> FALSE]

\* a format_type text, as a sequence of tokens: a type name, "(", ")",
\* ",", "[]" and decimal digits
DigitValue(c) == CASE c = "1" -> 1 [] c = "2" -> 2 [] OTHER -> 0

IsDigitOrComma(c) == c \in {"0", "1", "2", ","}

RECURSIVE Decimal(_)
\* int(text) of a sequence of digits
Decimal(ds) ==
    IF Len(ds) = 0 THEN 0
    ELSE 10 * Decimal(SubSeq(ds, 1, Len(ds) - 1)) + DigitValue(ds[Len(ds)])

RECURSIVE LastIndex(_, _, _)
\* the last place of c in s at or before i, 0 when there is none
LastIndex(s, c, i) ==
    IF i = 0 THEN 0 ELSE IF s[i] = c THEN i ELSE LastIndex(s, c, i - 1)

\* re.sub(r"\(.*\)", "", format_type): from the first "(" to the last ")"
StripModifier(text, open, close) ==
    IF open <= Len(text) /\ close > open
    THEN SubSeq(text, 1, open - 1) \o SubSeq(text, close + 1, Len(text))
    ELSE text

\* re.search(r"\(([\d,]+)\)", format_type): the first "(" that digits and
\* commas and then ")" follow
RECURSIVE Charlen(_, _)
Charlen(text, i) ==
    IF i > Len(text) THEN <<>>
    ELSE LET close == IndexFrom(text, ")", i + 1)
         IN  IF /\ text[i] = "("
                /\ close <= Len(text) /\ close > i + 1
                /\ \A k \in (i + 1)..(close - 1) : IsDigitOrComma(text[k])
             THEN SubSeq(text, i + 1, close - 1)
             ELSE Charlen(text, i + 1)

\* charlen.split(","), each part through int(): one number, or precision
\* and scale
CharlenNumbers(charlen, comma) ==
    IF Len(charlen) = 0 THEN <<>>
    ELSE IF comma > Len(charlen) THEN <<Decimal(charlen)>>
    ELSE <<Decimal(SubSeq(charlen, 1, comma - 1)),
           Decimal(SubSeq(charlen, comma + 1, Len(charlen)))>>

\* attype, is_array = _handle_array_type(attype)
HandleArrayType(attype, charlen, text) ==
    [name |-> IF Len(attype) > 0 /\ attype[Len(attype)] = "[]"
              THEN SubSeq(attype, 1, Len(attype) - 1) ELSE attype,
     mod |-> CharlenNumbers(charlen, IndexFrom(charlen, ",", 1)),
     array |-> Len(attype) > 0 /\ attype[Len(attype)] = "[]",
     text |-> text]

\* what _get_column_info takes from format_type before its loop
FormatType(text) ==
    HandleArrayType(
        StripModifier(text, IndexFrom(text, "(", 1),
                      LastIndex(text, ")", Len(text))),
        Charlen(text, 1), text)

Col(name, type, notnull, default, encode, distkey, sortkey, attnum) ==
    [name |-> name, format_type |-> type, notnull |-> notnull,
     default |-> default, encode |-> encode, distkey |-> distkey,
     sortkey |-> sortkey, attnum |-> attnum, comment |-> None]

Con(contype, conname, conkey, attnum, attname, condef) ==
    [contype |-> contype, conname |-> conname, conkey |-> conkey,
     attnum |-> attnum, attname |-> attname, condef |-> condef]

RECURSIVE Join(_, _)
Join(parts, sep) ==
    IF Len(parts) = 0 THEN <<>>
    ELSE IF Len(parts) = 1 THEN parts[1]
    ELSE parts[1] \o sep \o Join(Tail(parts), sep)

\* pg_get_constraintdef of a primary key / a foreign key
PKText(cols) ==
    W_PRIMARY \o <<" ">> \o W_KEY \o <<" ", "(">> \o Join(cols, <<",", " ">>)
    \o <<")">>

FKText(cols, rschema, rtable, rcols) ==
    W_FOREIGN_KEY \o <<" ", "(">> \o Join(cols, <<",", " ">>) \o <<")", " ">>
    \o W_REFERENCES \o <<" ">>
    \o (IF rschema = None THEN <<>> ELSE rschema \o <<".">>) \o rtable
    \o <<"(">> \o Join(rcols, <<",", " ">>) \o <<")">>

A == <<"a">>

B == <<"b">>

TablePK == PKText(<<A, <<Q, "b", Q>>>>)

TableFK == FKText(<<B>>, S, U, <<A>>)

\* pg_class / pg_attribute / pg_constraint: the native relations
NativeTables == <<
    [schema |-> S, name |-> T, relkind |-> "r", diststyle |-> "KEY",
     view_definition |-> PyNone, oid |-> 11,
     cols |-> <<
        Col(A, Ty(<<"integer">>, <<>>), TRUE, PyNone, "lzo", TRUE, 1, 1),
        Col(B, Ty(<<"d1">>, <<>>), FALSE, PyNone, "none", FALSE, 0, 2)>>,
     conrows |-> <<
        Con("p", <<"t", "_", "p", "k">>, <<1, 2>>, 1, A, TablePK),
        Con("p", <<"t", "_", "p", "k">>, <<1, 2>>, 2, B, TablePK),
        Con("f", <<"t", "_", "f", "k">>, <<2>>, 2, B, TableFK),
        Con("u", <<"t", "_", "u", "k">>, <<2, 1>>, 1, A, <<>>),
        Con("u", <<"t", "_", "u", "k">>, <<2, 1>>, 2, B, <<>>)>>],
    [schema |-> S, name |-> U, relkind |-> "r", diststyle |-> "EVEN",
     view_definition |-> PyNone, oid |-> 12,
     cols |-> <<
        Col(A, Ty(<<"character varying">>, <<2>>), FALSE, PyNone, PyNone, FALSE, 0, 1)>>,
     conrows |-> <<>>],
    [schema |-> DefaultSchema, name |-> V, relkind |-> "v", diststyle |-> PyNone,
     view_definition |-> "SELECT 1", oid |-> 13,
     cols |-> <<
        Col(A, Ty(<<"integer">>, <<>>), FALSE, PyNone, PyNone, FALSE, 0, 1)>>,
     conrows |-> <<>>] >>

\* svv_external_tables / svv_external_columns; the second column of x.u is
\* named "1a", which is no SQL identifier
ExternalTables == <<
    [schema |-> E, name |-> U,
     cols |-> <<
        Col(A, Ty(<<"integer">>, <<>>), FALSE, PyNone, PyNone, FALSE, 0, 1),
        Col(<<"1", "a">>, Ty(<<"character varying">>, <<>>), FALSE, PyNone,
            PyNone, FALSE, 0, 2)>>] >>

\* the same table with its rows in the other order: the constraints query
\* orders by schema and table only
ExternalTablesReversed == <<
    [schema |-> E, name |-> U,
     cols |-> <<ExternalTables[1].cols[2], ExternalTables[1].cols[1]>>] >>

\* svv_redshift_tables / svv_redshift_columns
DatashareTables == <<
    [database |-> <<"d">>, schema |-> S, name |-> T,
     cols |-> <<
        Col(A, Ty(<<"integer">>, <<>>), FALSE, PyNone, PyNone, FALSE, 0, 1)>>] >>

\* what the domain query returns: pg_type rows with typtype = 'd'
Dom(name, attype, nullable, default, visible, schema) ==
    [name |-> name, attype |-> attype, nullable |-> nullable,
     default |-> default, visible |-> visible, schema |-> schema]

DomainCatalogs == {
    <<>>,
    <<Dom("d1", Ty(<<"d2">>, <<>>), TRUE, PyNone, TRUE, "public"),
      Dom("d2", Ty(<<"integer">>, <<>>), FALSE, "0", TRUE, "public")>> }

\* what a constraint text was written from, where that is known
Raw == [known |-> FALSE]

NoGiven == [pk |-> Raw, fk |-> Raw]

Catalogs == {
    [native |-> NativeTables, external |-> ExternalTables,
     datashare |-> DatashareTables, domains |-> d, given |-> NoGiven] :
        d \in DomainCatalogs }

----------------------------------------------------------------------------
(* Catalog query layer: what connection.execute returns for each query *)

RECURSIVE Flatten(_)
Flatten(ss) == IF Len(ss) = 0 THEN <<>> ELSE ss[1] \o Flatten(Tail(ss))

Range(s) == {s[i] : i \in 1..Len(s)}

\* "AND column = '{v}'" if v else ""
Clause(v, x) == v = None \/ v = <<>> \/ x = v

\* rows of one table, in ascending attnum (ORDER BY ... "attnum")
MaxAttnum == 2

\* rows in the order the catalog stores them
ByStorage(rows) == rows

ByAttnum(rows) ==
    LET Pick(n) == LET At(r) == r.attnum = n IN SelectSeq(rows, At)
    IN  Flatten([n \in 1..MaxAttnum |-> Pick(n)])

RelRow(relkind, schema, relname, diststyle, view_definition, rel_oid) ==
    [relkind |-> relkind, schema |-> schema, relname |-> relname,
     diststyle |-> diststyle, view_definition |-> view_definition,
     rel_oid |-> rel_oid]

\* the relations query of _get_all_relation_info
RelationsQuery(db, schema, table_name) ==
    LET pd == parse_datashare(schema)
        Ntv(t) == IF Clause(schema, t.schema) /\ Clause(table_name, t.name)
                  THEN <<RelRow(t.relkind, t.schema, t.name, t.diststyle,
                                t.view_definition, t.oid)>>
                  ELSE <<>>
        Ext(t) == IF Clause(schema, t.schema) /\ Clause(table_name, t.name)
                  THEN <<RelRow("r", t.schema, t.name, PyNone, PyNone, 0)>>
                  ELSE <<>>
        Dsh(t) == IF /\ pd.has_datashare => t.database = pd.datashare
                     /\ Clause(schema, t.database \o <<".">> \o t.schema)
                     /\ Clause(table_name, t.name)
                  THEN <<RelRow("r", t.database \o <<".">> \o t.schema, t.name,
                                PyNone, PyNone, 0)>>
                  ELSE <<>>
    IN  Flatten([i \in 1..Len(db.native) |-> Ntv(db.native[i])])
        \o Flatten([i \in 1..Len(db.external) |-> Ext(db.external[i])])
        \o Flatten([i \in 1..Len(db.datashare) |-> Dsh(db.datashare[i])])

ColRows(schema, table_name, cols) ==
    [i \in 1..Len(cols) |->
        [schema |-> schema, table_name |-> table_name, name |-> cols[i].name,
         format_type |-> cols[i].format_type, notnull |-> cols[i].notnull,
         default |-> cols[i].default, encode |-> cols[i].encode,
         distkey |-> cols[i].distkey, sortkey |-> cols[i].sortkey,
         attnum |-> cols[i].attnum, comment |-> cols[i].comment]]

\* REFLECTION_SQL, with the clauses _get_schema_column_info builds
ColumnsQuery(db, schema, table_name) ==
    LET pd == parse_datashare(schema)
        Ntv(t) == IF Clause(schema, t.schema) /\ Clause(table_name, t.name)
                  THEN ByAttnum(ColRows(t.schema, t.name, t.cols))
                  ELSE <<>>
        Dsh(t) == IF /\ (pd.datashare # None /\ pd.datashare # <<>>)
                        => t.database = pd.datashare
                     /\ Clause(schema, t.database \o <<".">> \o t.schema)
                     /\ Clause(table_name, t.name)
                  THEN ByAttnum(ColRows(t.database \o <<".">> \o t.schema,
                                        t.name, t.cols))
                  ELSE <<>>
    IN  Flatten([i \in 1..Len(db.native) |-> Ntv(db.native[i])])
        \o Flatten([i \in 1..Len(db.external) |-> Ntv(db.external[i])])
        \o Flatten([i \in 1..Len(db.datashare) |-> Dsh(db.datashare[i])])

ConRows(schema, table_name, conrows) ==
    [i \in 1..Len(conrows) |->
        [schema |-> schema, table_name |-> table_name,
         contype |-> conrows[i].contype, conname |-> conrows[i].conname,
         conkey |-> conrows[i].conkey, attnum |-> conrows[i].attnum,
         attname |-> conrows[i].attname, condef |-> conrows[i].condef]]

\* the synthetic primary key rows of an external or datashare table: one
\* row for each row of svv_external_columns / svv_redshift_columns
SyntheticPK(schema, table_name, cols) ==
    [i \in 1..Len(cols) |->
        [schema |-> schema, table_name |-> table_name, contype |-> "p",
         conname |-> table_name \o W_PKEY, conkey |-> <<1>>, attnum |-> 1,
         attname |-> cols[i].name,
         condef |-> W_PRIMARY \o <<" ">> \o W_KEY \o <<" ", "(">>
                    \o cols[i].name \o <<")">>]]

\* the constraints query of _get_all_constraint_info
ConstraintsQuery(db, schema, table_name) ==
    LET pd == parse_datashare(schema)
        Ntv(t) == IF Clause(schema, t.schema) /\ Clause(table_name, t.name)
                  THEN ConRows(t.schema, t.name, t.conrows)
                  ELSE <<>>
        Ext(t) == IF Clause(schema, t.schema) /\ Clause(table_name, t.name)
                  THEN SyntheticPK(t.schema, t.name, t.cols)
                  ELSE <<>>
        Dsh(t) == IF /\ (pd.datashare # None /\ pd.datashare # <<>>)
                        => t.database = pd.datashare
                     /\ Clause(schema, t.database \o <<".">> \o t.schema)
                     /\ Clause(table_name, t.name)
                  THEN SyntheticPK(t.database \o <<".">> \o t.schema, t.name,
                                   t.cols)
                  ELSE <<>>
    IN  Flatten([i \in 1..Len(db.native) |-> Ntv(db.native[i])])
        \o Flatten([i \in 1..Len(db.external) |-> Ext(db.external[i])])
        \o Flatten([i \in 1..Len(db.datashare) |-> Dsh(db.datashare[i])])

\* select '{schema.}{table}'::regclass::oid : the oid of the native relation
\* the text names (regclass reads quoted identifiers), 0 when the cast fails
OidCast(db, schema, table_name) ==
    LET sch == IF schema = None \/ schema = <<>> THEN DefaultSchema
               ELSE unquote(schema)
        Hit(t) == t.schema = sch /\ t.name = unquote(table_name)
        hits == SelectSeq(db.native, Hit)
    IN  IF Len(hits) = 0 THEN 0 ELSE hits[1].oid

\* SELECT 1 FROM svv_external_tables WHERE tablename = .. {schema_filter}
ExternalTablesQuery(db, schema, table_name) ==
    \E i \in 1..Len(db.external) :
        /\ db.external[i].name = table_name
        /\ Clause(schema, db.external[i].schema)

\* SELECT 1 FROM svv_redshift_tables WHERE table_name = .. {schema_filter}
\* {datashare_filter}
RedshiftTablesQuery(db, datashare, clean_schema, table_name) ==
    \E i \in 1..Len(db.datashare) :
        /\ db.datashare[i].name = table_name
        /\ Clause(clean_schema, db.datashare[i].schema)
        /\ db.datashare[i].database = datashare

\* groups rows by RelationKey(row.<name>, row.schema), keeping their order
GroupByKey(rows, keys) ==
    LET pairs == [i \in 1..Len(rows) |-> <<keys[i], rows[i]>>]
    IN  [k \in Range(keys) |->
            LET Mine(p) == p[1] = k
                mine == SelectSeq(pairs, Mine)
            IN  [i \in 1..Len(mine) |-> mine[i][2]]]

----------------------------------------------------------------------------
(* Type resolver: _get_column_info and _get_redshift_column_info.  The     *)
(* adjustment of sequence-linked defaults (autoincrement) is modelled in   *)
(* _get_column_info, on defaults given as texts.                           *)

\* self.ischema_names, as far as the catalogs above use it
IschemaNames ==
    {"integer", "bigint", "character varying", "numeric", "double precision"}

Ischema(name) ==
    CASE name = "integer" -> "INTEGER"
      [] name = "bigint" -> "BIGINT"
      [] name = "character varying" -> "VARCHAR"
      [] name = "numeric" -> "NUMERIC"
      [] name = "double precision" -> "DOUBLE_PRECISION"

NullType == [ctor |-> "NullType", args |-> <<>>, array |-> FALSE]

\* _load_domains: the mapping built from the rows of the domain query, a
\* later row replacing an earlier one of the same name
DomainKey(d) == IF d.visible THEN <<d.name>> ELSE <<d.schema, d.name>>

DomainEntry(d) ==
    [attype |-> [name |-> d.attype.name,
                 array |-> d.attype.array /\ d.attype.mod = <<>>],
     nullable |-> d.nullable, default |-> d.default]

LoadDomains(rows) ==
    LET g == GroupByKey(rows, [i \in 1..Len(rows) |-> DomainKey(rows[i])])
    IN  [k \in DOMAIN g |-> DomainEntry(g[k][Len(g[k])])]

\* the state of _get_column_info on entry to its "while True" loop
ResolveStart(format_type, default, notnull) ==
    LET attype == format_type.name
        charlen == format_type.mod
        args == IF attype = <<"numeric">>
                THEN (IF Len(charlen) = 2 THEN charlen ELSE <<>>)
                ELSE IF attype = <<"double precision">> THEN <<53>>
                ELSE IF attype = <<"integer">> THEN <<>>
                ELSE charlen
    IN  [attype |-> attype, is_array |-> format_type.array,
         enum_or_domain_key |-> attype, nullable |-> ~notnull,
         default |-> default, args |-> args, coltype |-> PyNone,
         done |-> FALSE]

\* a loop round in which the domain's nullability replaces the column's
LoopBodyWidening(st, domains) ==
    IF Len(st.attype) = 1 /\ st.attype[1] \in IschemaNames
    THEN [st EXCEPT !.coltype = Ischema(st.attype[1]), !.done = TRUE]
    ELSE IF st.enum_or_domain_key \in DOMAIN domains
    THEN LET domain == domains[st.enum_or_domain_key]
         IN  [st EXCEPT !.attype = domain.attype.name,
                        !.is_array = domain.attype.array,
                        !.enum_or_domain_key = domain.attype.name,
                        !.nullable = domain.nullable,
                        !.default = IF Truthy(domain.default)
                                       /\ ~Truthy(st.default)
                                    THEN domain.default ELSE st.default]
    ELSE [st EXCEPT !.coltype = PyNone, !.done = TRUE]

\* one round of the "while True" loop (enums is always empty)
LoopBody(st, domains) ==
    IF Len(st.attype) = 1 /\ st.attype[1] \in IschemaNames
    THEN [st EXCEPT !.coltype = Ischema(st.attype[1]), !.done = TRUE]
    ELSE IF st.enum_or_domain_key \in DOMAIN domains
    THEN LET domain == domains[st.enum_or_domain_key]
         IN  [st EXCEPT !.attype = domain.attype.name,
                        !.is_array = domain.attype.array,
                        !.enum_or_domain_key = domain.attype.name,
                        !.nullable = st.nullable /\ domain.nullable,
                        !.default = IF Truthy(domain.default)
                                       /\ ~Truthy(st.default)
                                    THEN domain.default ELSE st.default]
    ELSE [st EXCEPT !.coltype = PyNone, !.done = TRUE]

RECURSIVE ResolveLoop(_, _)
ResolveLoop(st, domains) ==
    IF st.done THEN st ELSE ResolveLoop(LoopBody(st, domains), domains)

\* a column_info whose VARCHAR without a length is left as it is
ColumnInfoAsResolved(col, st) ==
    [name |-> col.name,
     type |-> IF st.coltype = PyNone THEN NullType
              ELSE [ctor |-> st.coltype, args |-> st.args,
                    array |-> st.is_array],
     nullable |-> st.nullable, default |-> st.default,
     comment |-> col.comment,
     info |-> IF Truthy(col.encode) /\ col.encode # "none"
              THEN [encode |-> col.encode] ELSE [encode |-> PyNone]]

\* the column_info built after the loop, and _get_redshift_column_info's
\* changes to it
ColumnInfo(col, st) ==
    LET coltype == IF st.coltype = PyNone THEN NullType
                   ELSE [ctor |-> st.coltype, args |-> st.args,
                         array |-> st.is_array]
        type == IF coltype.ctor = "VARCHAR" /\ ~coltype.array
                   /\ coltype.args = <<>>
                THEN NullType ELSE coltype
    IN  [name |-> col.name, type |-> type, nullable |-> st.nullable,
         default |-> st.default, comment |-> col.comment,
         info |-> IF Truthy(col.encode) /\ col.encode # "none"
                  THEN [encode |-> col.encode] ELSE [encode |-> PyNone]]

_get_redshift_column_info(col, domains) ==
    ColumnInfo(col, ResolveLoop(
        ResolveStart(col.format_type, col.default, col.notnull), domains))

\* an empty domain mapping
NoDomainMap == [k \in {} |-> 0]

W_NEXTVAL == <<"n", "e", "x", "t", "v", "a", "l", "(", "'">>

LF == "\n"

StartsAt(s, w, i) ==
    i + Len(w) - 1 <= Len(s) /\ SubSeq(s, i, i + Len(w) - 1) = w

\* ".*" from position i: the position after the last character of the line
RECURSIVE LineEnd(_, _)
LineEnd(s, i) ==
    IF i <= Len(s) /\ s[i] # LF THEN LineEnd(s, i + 1) ELSE i

\* "$" at position i: the end of the text, or before its final newline
AtEnd(s, i) == i = Len(s) + 1 \/ (i = Len(s) /\ s[i] = LF)

NoNextval == [matched |-> FALSE, g1 |-> <<>>, g2 |-> <<>>, g3 |-> <<>>]

\* (nextval\(')([^']+)('.*$) tried at position i: group 2 runs up to the
\* next quote, group 3 from that quote to the end of the line
NextvalAt(s, i) ==
    LET j == i + Len(W_NEXTVAL)
        k == IndexFrom(s, "'", j)
        e == LineEnd(s, k + 1)
    IN  IF StartsAt(s, W_NEXTVAL, i) /\ k <= Len(s) /\ k > j /\ AtEnd(s, e)
        THEN [matched |-> TRUE, g1 |-> W_NEXTVAL,
              g2 |-> SubSeq(s, j, k - 1), g3 |-> SubSeq(s, k, e - 1)]
        ELSE NoNextval

\* re.search: the match at the leftmost position that has one
RECURSIVE NextvalSearch(_, _)
NextvalSearch(s, i) ==
    IF i > Len(s) THEN NoNextval
    ELSE IF NextvalAt(s, i).matched THEN NextvalAt(s, i)
    ELSE NextvalSearch(s, i + 1)

\* issubclass(coltype._type_affinity, sqltypes.Integer)
IntegerAffinity(coltype) ==
    coltype.ctor \in {"INTEGER", "BIGINT"} /\ ~coltype.array

\* "adjust the default value" with autoincrement set for any type
SequenceDefaultAnyType(default, match, coltype, sch) ==
    IF default = None \/ ~match.matched
    THEN [autoincrement |-> FALSE, default |-> default]
    ELSE [autoincrement |-> TRUE,
          default |-> IF ~Contains(match.g2, ".") /\ sch # None
                      THEN match.g1 \o <<Q>> \o sch \o <<Q, ".">>
                           \o match.g2 \o match.g3
                      ELSE default]

\* "adjust the default value": autoincrement and the default returned
SequenceDefault(default, match, coltype, sch) ==
    IF default = None \/ ~match.matched
    THEN [autoincrement |-> FALSE, default |-> default]
    ELSE [autoincrement |-> IntegerAffinity(coltype),
          default |-> IF ~Contains(match.g2, ".") /\ sch # None
                      THEN match.g1 \o <<Q>> \o sch \o <<Q, ".">>
                           \o match.g2 \o match.g3
                      ELSE default]

\* the type built after the loop
Coltype(st) ==
    IF st.coltype = PyNone THEN NullType
    ELSE [ctor |-> st.coltype, args |-> st.args, array |-> st.is_array]

\* the column_info of _get_column_info from the state its loop ended in
ColumnInfoOf(name, st, adjusted, identity) ==
    [name |-> name, type |-> Coltype(st), nullable |-> st.nullable,
     default |-> adjusted.default,
     autoincrement |-> adjusted.autoincrement \/ identity # None]

\* _get_column_info, for a default that is a text or None and no domains
_get_column_info(name, format_type, default, notnull, schema, identity) ==
    LET st == ResolveLoop(ResolveStart(format_type, default, notnull),
                          NoDomainMap)
    IN  ColumnInfoOf(name, st,
            SequenceDefault(st.default,
                            IF st.default = None THEN NoNextval
                            ELSE NextvalSearch(st.default, 1),
                            Coltype(st), schema),
            identity)

----------------------------------------------------------------------------
(* Reflection cache: the per-call info_cache of @reflection.cache, keyed   *)
(* by the method name and the string arguments, and the dialect's _domains *)

QueryKinds == {"domains", "columns", "relations", "constraints", "oid_cast",
               "external_tables", "redshift_tables", "checks"}

ZeroQ == [k \in QueryKinds |-> 0]

One(kind) == [k \in QueryKinds |-> IF k = kind THEN 1 ELSE 0]

Plus(q1, q2) == [k \in QueryKinds |-> q1[k] + q2[k]]

EmptyCache == [k \in {} |-> [isNone |-> TRUE]]

\* a decorator that never answers from the info_cache
CacheHitNever(cache, ic, key) == FALSE

\* ret = info_cache.get(key); "if ret is None" the method runs
CacheHit(cache, ic, key) ==
    ic /\ key \in DOMAIN cache /\ ~cache[key].isNone

\* info_cache[key] = ret
CachePut(cache, ic, key, isNone, v) ==
    IF ic THEN (key :> [isNone |-> isNone, v |-> v]) @@ cache ELSE cache

\* a bulk fetch that runs a failed query a second time, with success
BulkRetry(kind, cache, ic, fail, ck, v) ==
    IF CacheHit(cache, ic, ck)
    THEN [err |-> FALSE, v |-> cache[ck].v, cache |-> cache, nq |-> ZeroQ]
    ELSE [err |-> FALSE, v |-> v, cache |-> CachePut(cache, ic, ck, FALSE, v),
          nq |-> IF fail THEN Plus(One(kind), One(kind)) ELSE One(kind)]

\* one decorated bulk fetch: answered from the info_cache, or its query
\* raises, or its result v is stored and returned
Bulk(kind, cache, ic, fail, ck, v) ==
    IF CacheHit(cache, ic, ck)
    THEN [err |-> FALSE, v |-> cache[ck].v, cache |-> cache, nq |-> ZeroQ]
    ELSE IF fail
    THEN [err |-> TRUE, v |-> <<>>, cache |-> cache, nq |-> One(kind)]
    ELSE [err |-> FALSE, v |-> v, cache |-> CachePut(cache, ic, ck, FALSE, v),
          nq |-> One(kind)]

\* a lookup without the retry
LookupKeyAsGiven(all, key) == key

\* "if key not in all.keys(): key = key.unquoted()"
LookupKey(all, key) == IF key \in DOMAIN all THEN key ELSE unquoted(key)

KeyOfRel(r) == RelationKey(r.relname, r.schema)

KeyOfRow(r) == RelationKey(r.table_name, r.schema)

\* relations[key] = rel: a later row replaces an earlier one of its key
LastOfEach(g) == [k \in DOMAIN g |-> g[k][Len(g[k])]]

\* the rows of a bulk query collected under the RelationKey of each
RelationsByKey(rows) ==
    GroupByKey(rows, [i \in 1..Len(rows) |-> KeyOfRel(rows[i])])

RowsByKey(rows) ==
    GroupByKey(rows, [i \in 1..Len(rows) |-> KeyOfRow(rows[i])])

_get_all_relation_info(db, cache, ic, fail, table_name, schema) ==
    Bulk("relations", cache, ic, fail,
         <<"_get_all_relation_info", table_name, schema>>,
         LastOfEach(RelationsByKey(RelationsQuery(db, schema, table_name))))

\* _get_schema_column_info: dict(all_columns)
_get_schema_column_info(db, cache, ic, fail, table_name, schema) ==
    Bulk("columns", cache, ic, fail,
         <<"_get_schema_column_info", table_name, schema>>,
         RowsByKey(ColumnsQuery(db, unquote(schema), table_name)))

\* _get_all_constraint_info: the defaultdict(list) itself is returned
_get_all_constraint_info(db, cache, ic, fail, table_name, schema) ==
    Bulk("constraints", cache, ic, fail,
         <<"_get_all_constraint_info", table_name, schema>>,
         RowsByKey(ConstraintsQuery(db, schema, table_name)))

\* what one lookup saw: the bulk result, the key as supplied, the key it
\* used, and the entry it came back with (when that key was there)
Lookup(kind, all, key, used) ==
    [kind |-> kind, all |-> all, key |-> key, used |-> used,
     found |-> used \in DOMAIN all,
     entry |-> IF used \in DOMAIN all THEN all[used] ELSE <<>>]

\* all[used] of a plain dict: the entry, or the error a missing key raises
Entry(kind, missing, all, key, used) ==
    IF all.err
    THEN [outcome |-> "QueryError", v |-> <<>>, cache |-> all.cache,
          nq |-> all.nq, lookups |-> <<>>]
    ELSE IF used \notin DOMAIN all.v
    THEN [outcome |-> missing, v |-> <<>>, cache |-> all.cache,
          nq |-> all.nq, lookups |-> <<Lookup(kind, all.v, key, used)>>]
    ELSE [outcome |-> "return", v |-> all.v[used], cache |-> all.cache,
          nq |-> all.nq, lookups |-> <<Lookup(kind, all.v, key, used)>>]

\* all[used] of the defaultdict(list): a missing key yields an empty list,
\* which is stored under that key (in the cached object too)
DefaultEntry(kind, ic, ck, all, key, used) ==
    IF all.err
    THEN [outcome |-> "QueryError", v |-> <<>>, cache |-> all.cache,
          nq |-> all.nq, lookups |-> <<>>]
    ELSE IF used \notin DOMAIN all.v
    THEN [outcome |-> "return", v |-> <<>>,
          cache |-> CachePut(all.cache, ic, ck, FALSE,
                             (used :> <<>>) @@ all.v),
          nq |-> all.nq, lookups |-> <<Lookup(kind, all.v, key, used)>>]
    ELSE [outcome |-> "return", v |-> all.v[used], cache |-> all.cache,
          nq |-> all.nq, lookups |-> <<Lookup(kind, all.v, key, used)>>]

RelationIn(all, key) ==
    Entry("relation", "NoSuchTableError", all, key, LookupKey(all.v, key))

\* _get_redshift_relation: NoSuchTableError when the key is missing
_get_redshift_relation(db, cache, ic, fail, table_name, schema) ==
    RelationIn(_get_all_relation_info(db, cache, ic, fail, table_name, schema),
               RelationKey(table_name, schema))

ColumnsIn(all, key) ==
    Entry("columns", "KeyError", all, key, LookupKey(all.v, key))

\* _get_redshift_columns: all_schema_columns[key]
_get_redshift_columns(db, cache, ic, fail, table_name, schema) ==
    ColumnsIn(_get_schema_column_info(db, cache, ic, fail, table_name, schema),
              RelationKey(table_name, schema))

ConstraintsIn(ic, ck, all, key) ==
    DefaultEntry("constraints", ic, ck, all, key, LookupKey(all.v, key))

\* _get_redshift_constraints: all_constraints[key]
_get_redshift_constraints(db, cache, ic, fail, table_name, schema) ==
    ConstraintsIn(ic, <<"_get_all_constraint_info", table_name, schema>>,
        _get_all_constraint_info(db, cache, ic, fail, table_name, schema),
        RelationKey(table_name, schema))

----------------------------------------------------------------------------
(* Public reflection API.  Each operator is one call of the method, from   *)
(* its @reflection.cache wrapper to its return or raise: the outcome, the  *)
(* returned value, the info_cache and _domains it leaves, the queries it   *)
(* executed.  fails is the set of query kinds whose execution raises.      *)

Done(outcome, result, cache, domains, nq, lookups, hit) ==
    [outcome |-> outcome, result |-> result, cache |-> cache,
     domains |-> domains, nq |-> nq, lookups |-> lookups, hit |-> hit]

\* the decorator answers from the info_cache
Hit(cache, ck, domains) ==
    Done("return", cache[ck].v, cache, domains, ZeroQ, <<>>, TRUE)

\* the lookup sub raised: the error leaves the method
Raised(sub, domains) ==
    Done(sub.outcome, <<>>, sub.cache, domains, sub.nq, sub.lookups, FALSE)

\* another error leaves the method after the lookup sub
Failed(outcome, sub, domains) ==
    Done(outcome, <<>>, sub.cache, domains, sub.nq, sub.lookups, FALSE)

\* the method returns res, and the decorator stores it
Returned(sub, ic, ck, domains, res) ==
    Done("return", res, CachePut(sub.cache, ic, ck, FALSE, res), domains,
         sub.nq, sub.lookups, FALSE)

NoDomains == [loaded |-> FALSE, map |-> [k \in {} |-> 0]]

\* "if not self._domains"
DomainsMissing(domains) == ~domains.loaded \/ DOMAIN domains.map = {}

\* the list comprehension of get_columns over the rows of the table
ColumnsWith(cols, ic, ck, doms, nq) ==
    Returned([cols EXCEPT !.nq = nq], ic, ck, doms,
             [i \in 1..Len(cols.v) |->
                 _get_redshift_column_info(cols.v[i], doms.map)])

\* get_columns after the lookup of the table's rows
ColumnsOf(db, domains, ic, fails, ck, cols) ==
    IF cols.outcome # "return" THEN Raised(cols, domains)
    ELSE IF ~DomainsMissing(domains)
    THEN ColumnsWith(cols, ic, ck, domains, cols.nq)
    ELSE IF "domains" \in fails
    THEN Failed("QueryError", [cols EXCEPT !.nq = Plus(@, One("domains"))],
                domains)
    ELSE ColumnsWith(cols, ic, ck,
                     [loaded |-> TRUE, map |-> LoadDomains(db.domains)],
                     Plus(cols.nq, One("domains")))

get_columns(db, domains, cache, ic, fails, table_name, schema) ==
    IF CacheHit(cache, ic, <<"get_columns", table_name, schema>>)
    THEN Hit(cache, <<"get_columns", table_name, schema>>, domains)
    ELSE ColumnsOf(db, domains, ic, fails,
                   <<"get_columns", table_name, schema>>,
                   _get_redshift_columns(db, cache, ic, "columns" \in fails,
                                         table_name, schema))

IsPK(c) == c.contype = "p"

IsFK(c) == c.contype = "f"

IsUnique(c) == c.contype = "u"

\* a parser that reports no primary key when the text does not match
PkParsedLenient(cons, ic, ck, domains, pk_constraint, m) ==
    IF ~m.matched
    THEN Returned(cons, ic, ck, domains,
                  [constrained_columns |-> <<>>, name |-> <<>>])
    ELSE Returned(cons, ic, ck, domains,
                  [constrained_columns |-> SQL_IDENTIFIER_RE_findall(m.columns),
                   name |-> pk_constraint.conname])

\* m = PRIMARY_KEY_RE.match(pk_constraint.condef); m.group('columns')
PkParsed(cons, ic, ck, domains, pk_constraint, m) ==
    IF ~m.matched THEN Failed("AttributeError", cons, domains)
    ELSE Returned(cons, ic, ck, domains,
                  [constrained_columns |-> SQL_IDENTIFIER_RE_findall(m.columns),
                   name |-> pk_constraint.conname])

PkRows(cons, ic, ck, domains, pk_constraints) ==
    IF Len(pk_constraints) = 0
    THEN Returned(cons, ic, ck, domains,
                  [constrained_columns |-> <<>>, name |-> <<>>])
    ELSE PkParsed(cons, ic, ck, domains, pk_constraints[1],
                  PRIMARY_KEY_RE_match(pk_constraints[1].condef))

PkOf(cons, ic, ck, domains) ==
    IF cons.outcome # "return" THEN Raised(cons, domains)
    ELSE PkRows(cons, ic, ck, domains, SelectSeq(cons.v, IsPK))

get_pk_constraint(db, domains, cache, ic, fails, table_name, schema) ==
    IF CacheHit(cache, ic, <<"get_pk_constraint", table_name, schema>>)
    THEN Hit(cache, <<"get_pk_constraint", table_name, schema>>, domains)
    ELSE PkOf(_get_redshift_constraints(db, cache, ic, "constraints" \in fails,
                                        table_name, schema),
              ic, <<"get_pk_constraint", table_name, schema>>, domains)

\* a grouping that opens a new group for every row
AddNameAlways(init, n) == Append(init, n)

\* the keys of "uniques" in insertion order: each conname once, at the
\* place of its first row
RECURSIVE Connames(_)
AddName(init, n) == IF n \in Range(init) THEN init ELSE Append(init, n)

Connames(rows) ==
    IF Len(rows) = 0 THEN <<>>
    ELSE AddName(Connames(SubSeq(rows, 1, Len(rows) - 1)),
                 rows[Len(rows)].conname)

LastOf(rows) == rows[Len(rows)]

\* the last row of a constraint name: uniques[conname][..] = .. overwrites
LastRow(rows, conname) ==
    LET Mine(c) == c.conname = conname IN LastOf(SelectSeq(rows, Mine))

\* an entry whose referred names keep their quotes
fkey_d_quoted(conname, m) ==
    [name |-> conname,
     constrained_columns |-> SQL_IDENTIFIER_RE_findall(m.columns),
     referred_schema |-> m.referred_schema,
     referred_table |-> m.referred_table,
     referred_columns |-> SQL_IDENTIFIER_RE_findall(m.referred_columns)]

fkey_d(conname, m) ==
    [name |-> conname,
     constrained_columns |-> SQL_IDENTIFIER_RE_findall(m.columns),
     referred_schema |-> unquote(m.referred_schema),
     referred_table |-> unquote(m.referred_table),
     referred_columns |-> SQL_IDENTIFIER_RE_findall(m.referred_columns)]

\* the loop over uniques.items(): ms[i] is the match of the i-th condef
FkParsed(cons, ic, ck, domains, names, ms) ==
    IF \E i \in 1..Len(names) : ~ms[i].matched
    THEN Failed("AttributeError", cons, domains)
    ELSE Returned(cons, ic, ck, domains,
                  [i \in 1..Len(names) |-> fkey_d(names[i], ms[i])])

FkNames(cons, ic, ck, domains, fk_constraints, names) ==
    FkParsed(cons, ic, ck, domains, names,
             [i \in 1..Len(names) |->
                 FOREIGN_KEY_RE_match(LastRow(fk_constraints, names[i]).condef)])

FkRows(cons, ic, ck, domains, fk_constraints) ==
    FkNames(cons, ic, ck, domains, fk_constraints, Connames(fk_constraints))

FkOf(cons, ic, ck, domains) ==
    IF cons.outcome # "return" THEN Raised(cons, domains)
    ELSE FkRows(cons, ic, ck, domains, SelectSeq(cons.v, IsFK))

get_foreign_keys(db, domains, cache, ic, fails, table_name, schema) ==
    IF CacheHit(cache, ic, <<"get_foreign_keys", table_name, schema>>)
    THEN Hit(cache, <<"get_foreign_keys", table_name, schema>>, domains)
    ELSE FkOf(_get_redshift_constraints(db, cache, ic, "constraints" \in fails,
                                        table_name, schema),
              ic, <<"get_foreign_keys", table_name, schema>>, domains)

\* uc["cols"]: attnum -> attname of the rows of one constraint name, a
\* later row replacing an earlier one
UniqueCols(rows, conname, attnum) ==
    LET Mine(c) == c.conname = conname /\ c.attnum = attnum
    IN  SelectSeq(rows, Mine)

\* an aggregation that lists the columns in the arrival order of the rows
UniqueNamesArrival(cons, ic, ck, domains, rows, names) ==
    Returned(cons, ic, ck, domains,
        [i \in 1..Len(names) |->
            [name |-> names[i],
             column_names |->
                LET Mine(c) == c.conname = names[i]
                    mine == SelectSeq(rows, Mine)
                IN  [j \in 1..Len(mine) |-> mine[j].attname]]])

\* the list comprehension over uniques.items(); uc["cols"][i] of a plain dict
UniqueNames(cons, ic, ck, domains, rows, names) ==
    IF \E i \in 1..Len(names) :
          \E j \in 1..Len(LastRow(rows, names[i]).conkey) :
             Len(UniqueCols(rows, names[i],
                            LastRow(rows, names[i]).conkey[j])) = 0
    THEN Failed("KeyError", cons, domains)
    ELSE Returned(cons, ic, ck, domains,
            [i \in 1..Len(names) |->
                [name |-> names[i],
                 column_names |->
                    [j \in 1..Len(LastRow(rows, names[i]).conkey) |->
                        LastOf(UniqueCols(rows, names[i],
                            LastRow(rows, names[i]).conkey[j])).attname]]])

UniqueRows(cons, ic, ck, domains, rows) ==
    UniqueNames(cons, ic, ck, domains, rows, Connames(rows))

UniqueOf(cons, ic, ck, domains) ==
    IF cons.outcome # "return" THEN Raised(cons, domains)
    ELSE UniqueRows(cons, ic, ck, domains, SelectSeq(cons.v, IsUnique))

get_unique_constraints(db, domains, cache, ic, fails, table_name, schema) ==
    IF CacheHit(cache, ic, <<"get_unique_constraints", table_name, schema>>)
    THEN Hit(cache, <<"get_unique_constraints", table_name, schema>>, domains)
    ELSE UniqueOf(_get_redshift_constraints(db, cache, ic,
                                            "constraints" \in fails,
                                            table_name, schema),
                  ic, <<"get_unique_constraints", table_name, schema>>,
                  domains)

Abs(n) == IF n < 0 THEN 0 - n ELSE n

\* sorted(cols, key=keyfunc): stable, by the absolute sort key
MaxSortKey == 2

\* no sorting: the columns in the order of the rows
SortedByArrival(cols) == cols

SortedByKey(cols) ==
    LET Keyed(n) == LET At(c) == Abs(c.sortkey) = n IN SelectSeq(cols, At)
    IN  Flatten([n \in 1..MaxSortKey |-> Keyed(n)])

HasSortKey(c) == c.sortkey # 0

IsDistKey(c) == c.distkey

Names(cols) == [i \in 1..Len(cols) |-> cols[i].name]

\* a dictionary whose redshift_sortkey stays set for an interleaved key
TableOptionsBoth(table, sortkey_cols, interleaved, distkeys) ==
    [redshift_diststyle |-> table.diststyle,
     redshift_distkey |-> IF Len(distkeys) = 0 THEN None ELSE distkeys[1],
     redshift_sortkey |-> Names(sortkey_cols),
     redshift_interleaved_sortkey |->
        IF interleaved THEN Names(sortkey_cols) ELSE None]

\* the dictionary get_table_options returns
TableOptions(table, sortkey_cols, interleaved, distkeys) ==
    [redshift_diststyle |-> table.diststyle,
     redshift_distkey |-> IF Len(distkeys) = 0 THEN None ELSE distkeys[1],
     redshift_sortkey |-> IF interleaved THEN None ELSE Names(sortkey_cols),
     redshift_interleaved_sortkey |->
        IF interleaved THEN Names(sortkey_cols) ELSE None]

OptionsSorted(table, columns, sortkey_cols) ==
    TableOptions(table, sortkey_cols,
                 \E i \in 1..Len(sortkey_cols) : sortkey_cols[i].sortkey < 0,
                 Names(SelectSeq(columns, IsDistKey)))

\* get_table_options after both lookups
OptionsColumns(table, columns, ic, ck, domains) ==
    IF columns.outcome # "return"
    THEN Raised([columns EXCEPT !.nq = Plus(table.nq, @),
                                !.lookups = table.lookups \o @], domains)
    ELSE Returned([columns EXCEPT !.nq = Plus(table.nq, @),
                                  !.lookups = table.lookups \o @],
                  ic, ck, domains,
                  OptionsSorted(table.v, columns.v,
                      SortedByKey(SelectSeq(columns.v, HasSortKey))))

OptionsOf(db, table, ic, fails, ck, domains, table_name, schema) ==
    IF table.outcome # "return" THEN Raised(table, domains)
    ELSE OptionsColumns(table,
            _get_redshift_columns(db, table.cache, ic, "columns" \in fails,
                                  table_name, schema),
            ic, ck, domains)

get_table_options(db, domains, cache, ic, fails, table_name, schema) ==
    IF CacheHit(cache, ic, <<"get_table_options", table_name, schema>>)
    THEN Hit(cache, <<"get_table_options", table_name, schema>>, domains)
    ELSE OptionsOf(db,
            _get_redshift_relation(db, cache, ic, "relations" \in fails,
                                   table_name, schema),
            ic, fails, <<"get_table_options", table_name, schema>>, domains,
            table_name, schema)

ViewOf(view, ic, ck, domains) ==
    IF view.outcome # "return" THEN Raised(view, domains)
    ELSE Returned(view, ic, ck, domains, view.v.view_definition)

get_view_definition(db, domains, cache, ic, fails, view_name, schema) ==
    IF CacheHit(cache, ic, <<"get_view_definition", view_name, schema>>)
    THEN Hit(cache, <<"get_view_definition", view_name, schema>>, domains)
    ELSE ViewOf(_get_redshift_relation(db, cache, ic, "relations" \in fails,
                                       view_name, schema),
                ic, <<"get_view_definition", view_name, schema>>, domains)

\* a fallback that returns None whether or not the table was found
OidFallbackSwallow(cache, ic, fails, ck, domains, kind, found) ==
    IF kind \in fails
    THEN Done("QueryError", <<>>, cache, domains,
              Plus(One("oid_cast"), One(kind)), <<>>, FALSE)
    ELSE Done("return", None, CachePut(cache, ic, ck, TRUE, None), domains,
              Plus(One("oid_cast"), One(kind)), <<>>, FALSE)

\* the "except Exception" branch of get_table_oid: the fallback query kind
\* either raises, or finds the table (return None), or does not (the cast's
\* error is re-raised)
OidFallback(cache, ic, fails, ck, domains, kind, found) ==
    IF kind \in fails
    THEN Done("QueryError", <<>>, cache, domains,
              Plus(One("oid_cast"), One(kind)), <<>>, FALSE)
    ELSE IF found
    THEN Done("return", None, CachePut(cache, ic, ck, TRUE, None), domains,
              Plus(One("oid_cast"), One(kind)), <<>>, FALSE)
    ELSE Done("CastError", <<>>, cache, domains,
              Plus(One("oid_cast"), One(kind)), <<>>, FALSE)

\* the fallback chosen by parse_datashare(schema)
OidExcept(db, cache, ic, fails, ck, domains, table_name, schema, pd) ==
    IF ~pd.has_datashare
    THEN OidFallback(cache, ic, fails, ck, domains, "external_tables",
                     ExternalTablesQuery(db, schema, table_name))
    ELSE OidFallback(cache, ic, fails, ck, domains, "redshift_tables",
                     RedshiftTablesQuery(db, pd.datashare, pd.schema,
                                         table_name))

\* the "try" branch: oid is the scalar of the cast, 0 when the cast raised
OidTry(db, cache, ic, fails, ck, domains, table_name, schema, oid) ==
    IF oid # 0
    THEN Done("return", oid, CachePut(cache, ic, ck, FALSE, oid), domains,
              One("oid_cast"), <<>>, FALSE)
    ELSE OidExcept(db, cache, ic, fails, ck, domains, table_name, schema,
                   parse_datashare(schema))

get_table_oid(db, domains, cache, ic, fails, table_name, schema) ==
    IF CacheHit(cache, ic, <<"get_table_oid", table_name, schema>>)
    THEN Hit(cache, <<"get_table_oid", table_name, schema>>, domains)
    ELSE OidTry(db, cache, ic, fails,
                <<"get_table_oid", table_name, schema>>, domains,
                table_name, schema,
                IF "oid_cast" \in fails THEN 0
                ELSE OidCast(db, schema, table_name))

\* "if not schema: schema = inspect(connection).default_schema_name"
SchemaOrDefault(schema) ==
    IF schema = None \/ schema = <<>> THEN DefaultSchema ELSE schema

\* a has_table that reports every table as present
HasTableAlways(all, ic, ck, domains) ==
    IF all.err
    THEN Done("QueryError", <<>>, all.cache, domains, all.nq, <<>>, FALSE)
    ELSE Done("return", TRUE, CachePut(all.cache, ic, ck, FALSE, TRUE),
              domains, all.nq, <<>>, FALSE)

\* "return True if table else False": the bulk result has an entry
HasTableOf(all, ic, ck, domains) ==
    IF all.err
    THEN Done("QueryError", <<>>, all.cache, domains, all.nq, <<>>, FALSE)
    ELSE Done("return", DOMAIN all.v # {},
              CachePut(all.cache, ic, ck, FALSE, DOMAIN all.v # {}),
              domains, all.nq, <<>>, FALSE)

has_table(db, domains, cache, ic, fails, table_name, schema) ==
    IF CacheHit(cache, ic, <<"has_table", table_name, schema>>)
    THEN Hit(cache, <<"has_table", table_name, schema>>, domains)
    ELSE HasTableOf(_get_all_relation_info(db, cache, ic,
                        "relations" \in fails, table_name,
                        SchemaOrDefault(schema)),
                    ic, <<"has_table", table_name, schema>>, domains)

\* the keys of the bulk result in the order of their first row
KeysInOrder(rows) ==
    LET names == Connames([i \in 1..Len(rows) |->
                              [conname |-> KeyOfRel(rows[i])]])
    IN  names

\* a filter that does not look at relkind
NamesOfAnyKind(relkind, schema, all, keys) ==
    LET Mine(key) == key.schema = schema
        mine == SelectSeq(keys, Mine)
    IN  [i \in 1..Len(mine) |-> unquote(mine[i].name)]

\* the loop of _get_table_or_view_names over all_relations.items()
NamesOfKind(relkind, schema, all, keys) ==
    LET Mine(key) == key.schema = schema /\ all[key].relkind = relkind
        mine == SelectSeq(keys, Mine)
    IN  [i \in 1..Len(mine) |-> unquote(mine[i].name)]

NamesFound(all, ic, ck, domains, names) ==
    Done("return", names, CachePut(all.cache, ic, ck, FALSE, names),
         domains, all.nq, <<>>, FALSE)

\* _get_table_or_view_names after the bulk fetch of the schema
NamesOf(db, relkind, schema, all, ic, ck, domains) ==
    IF all.err
    THEN Done("QueryError", <<>>, all.cache, domains, all.nq, <<>>, FALSE)
    ELSE NamesFound(all, ic, ck, domains,
            NamesOfKind(relkind, schema, all.v,
                        KeysInOrder(RelationsQuery(db, schema, None))))

_get_table_or_view_names(db, domains, cache, ic, fails, ck, relkind, schema) ==
    NamesOf(db, relkind, SchemaOrDefault(schema),
            _get_all_relation_info(db, cache, ic, "relations" \in fails,
                                   None, SchemaOrDefault(schema)),
            ic, ck, domains)

get_table_names(db, domains, cache, ic, fails, schema) ==
    IF CacheHit(cache, ic, <<"get_table_names", schema>>)
    THEN Hit(cache, <<"get_table_names", schema>>, domains)
    ELSE _get_table_or_view_names(db, domains, cache, ic, fails,
                                  <<"get_table_names", schema>>, "r", schema)

get_view_names(db, domains, cache, ic, fails, schema) ==
    IF CacheHit(cache, ic, <<"get_view_names", schema>>)
    THEN Hit(cache, <<"get_view_names", schema>>, domains)
    ELSE _get_table_or_view_names(db, domains, cache, ic, fails,
                                  <<"get_view_names", schema>>, "v", schema)

----------------------------------------------------------------------------
(* get_check_constraints: the two regular expressions and the method *)

W_CHECK == <<"C", "H", "E", "C", "K">>

W_NOT_VALID == <<" ", "N", "O", "T", " ", "V", "A", "L", "I", "D">>

NL == "\n"

\* [\s\n]
IsSpace(c) == c = " " \/ c = NL

StartsWith(s, w) == Len(s) >= Len(w) /\ SubSeq(s, 1, Len(w)) = w

EndsWith(s, w) ==
    Len(s) >= Len(w) /\ SubSeq(s, Len(s) - Len(w) + 1, Len(s)) = w

RECURSIVE SkipBlanks(_, _)
\* " *" from position i: the position after the blanks
SkipBlanks(s, i) ==
    IF i <= Len(s) /\ s[i] = " " THEN SkipBlanks(s, i + 1) ELSE i

\* the tails "\)( NOT VALID)?$" can match, shortest first: "$" also matches
\* before a newline that ends the text
CheckTails ==
    << [text |-> <<")">>, not_valid |-> FALSE],
       [text |-> <<")", NL>>, not_valid |-> FALSE],
       [text |-> <<")">> \o W_NOT_VALID, not_valid |-> TRUE],
       [text |-> <<")">> \o W_NOT_VALID \o <<NL>>, not_valid |-> TRUE] >>

\* "(.+)" is greedy: it ends where the shortest tail begins
CheckBody(src, open, tails) ==
    IF Len(tails) = 0 \/ open > Len(src) \/ src[open] # "("
    THEN NoMatch
    ELSE [matched |-> TRUE,
          body |-> SubSeq(src, open + 1, Len(src) - Len(tails[1].text)),
          not_valid |-> tails[1].not_valid]

\* re.match(r"^CHECK *\((.+)\)( NOT VALID)?$", src, flags=re.DOTALL)
CHECK_RE_match(src) ==
    IF ~StartsWith(src, W_CHECK) THEN NoMatch
    ELSE LET open == SkipBlanks(src, Len(W_CHECK) + 1)
             Fits(t) == /\ EndsWith(src, t.text)
                        /\ Len(src) - Len(t.text) >= open + 1
         IN  CheckBody(src, open, SelectSeq(CheckTails, Fits))

RECURSIVE LeadingSpace(_, _)
LeadingSpace(s, i) ==
    IF i <= Len(s) /\ IsSpace(s[i]) THEN LeadingSpace(s, i + 1) ELSE i

RECURSIVE TrailingSpace(_, _)
TrailingSpace(s, j) ==
    IF j >= 1 /\ IsSpace(s[j]) THEN TrailingSpace(s, j - 1) ELSE j

\* the pattern matches when the first character after the leading space is
\* "(", the last before the trailing space is ")" and something is between
Unwrapped(body, open, close) ==
    IF /\ open <= Len(body) /\ body[open] = "("
       /\ close >= 1 /\ body[close] = ")"
       /\ close - open >= 2
    THEN SubSeq(body, open + 1, close - 1)
    ELSE body

\* re.compile(r"^[\s\n]*\((.+)\)[\s\n]*$", flags=re.DOTALL).sub(r"\1", body)
StripOuterParens(body) ==
    Unwrapped(body, LeadingSpace(body, 1), TrailingSpace(body, Len(body)))

\* the check constraints query: pg_constraint rows with contype = 'c' of
\* the relation; "conrelid = NULL" (table_oid 0 here) selects no row
CheckQuery(db, table_oid) ==
    LET Mine(c) == table_oid # 0 /\ c.conrelid = table_oid
    IN  SelectSeq(db.checks, Mine)

\* an entry that never carries dialect_options
CheckEntryPlain(name, m) ==
    [name |-> name,
     sqltext |-> IF m.matched THEN StripOuterParens(m.body) ELSE <<>>]

\* entry = {"name": name, "sqltext": sqltext}, with dialect_options when
\* the source matched and group 2 is there
CheckEntry(name, m) ==
    IF m.matched /\ m.not_valid
    THEN [name |-> name, sqltext |-> StripOuterParens(m.body),
          dialect_options |-> [not_valid |-> TRUE]]
    ELSE [name |-> name,
          sqltext |-> IF m.matched THEN StripOuterParens(m.body) ELSE <<>>]

\* the loop over the rows of the result
CheckEntries(rows) ==
    [i \in 1..Len(rows) |-> CheckEntry(rows[i].name,
                                       CHECK_RE_match(rows[i].src))]

\* table_oid = 'NULL' if not table_oid else table_oid: get_table_oid
\* returns None from its fallback branch only
TableOidOrNull(oid) ==
    IF oid.nq["external_tables"] + oid.nq["redshift_tables"] > 0 THEN 0
    ELSE oid.result

ChecksFound(oid, ic, ck, domains, entries) ==
    Done("return", entries, CachePut(oid.cache, ic, ck, FALSE, entries),
         domains, Plus(oid.nq, One("checks")), <<>>, FALSE)

\* get_check_constraints after its get_table_oid call
ChecksOf(db, oid, ic, fails, ck, domains) ==
    IF oid.outcome # "return"
    THEN Done(oid.outcome, <<>>, oid.cache, domains, oid.nq, <<>>, FALSE)
    ELSE IF "checks" \in fails
    THEN Done("QueryError", <<>>, oid.cache, domains,
              Plus(oid.nq, One("checks")), <<>>, FALSE)
    ELSE ChecksFound(oid, ic, ck, domains,
                     CheckEntries(CheckQuery(db, TableOidOrNull(oid))))

\* self.get_table_oid(connection, table_name, schema, info_cache=..,
\* datashare=datashare): the decorator's key holds the datashare keyword
TableOidOfChecks(db, domains, cache, ic, fails, ck, table_name, schema) ==
    IF CacheHit(cache, ic, ck)
    THEN Hit(cache, ck, domains)
    ELSE OidTry(db, cache, ic, fails, ck, domains, table_name, schema,
                IF "oid_cast" \in fails THEN 0
                ELSE OidCast(db, schema, table_name))

get_check_constraints(db, domains, cache, ic, fails, table_name, schema) ==
    IF CacheHit(cache, ic, <<"get_check_constraints", table_name, schema>>)
    THEN Hit(cache, <<"get_check_constraints", table_name, schema>>, domains)
    ELSE ChecksOf(db,
            TableOidOfChecks(db, domains, cache, ic, fails,
                <<"get_table_oid", table_name, schema, "datashare",
                  parse_datashare(schema).datashare>>,
                table_name, schema),
            ic, fails, <<"get_check_constraints", table_name, schema>>,
            domains)

----------------------------------------------------------------------------
(* Catalogs of the parser runs: the constraint texts of table s.t are the  *)
(* inputs.  given records what the texts were written from: the           *)
(* identifier lists and names, or Raw for a text written from none.        *)

\* the identifiers the well-formed texts are written from: bare, quoted,
\* quoted with a blank, with a doubled quote, with a digit and a comma
IdPool == {A, B, <<Q, "b", Q>>, <<Q, "a", " ", "b", Q>>,
           <<Q, "a", Q, Q, "b", Q>>, <<Q, "1", ",", Q>>}

MaxCols == 2

RECURSIVE SeqsOf(_, _)
SeqsOf(set, n) ==
    IF n = 0 THEN {<<>>}
    ELSE {Append(s, c) : s \in SeqsOf(set, n - 1), c \in set}

SeqsUpTo(set, n) == UNION {SeqsOf(set, k) : k \in 0..n}

IdLists == SeqsUpTo(IdPool, MaxCols) \ {<<>>}

\* arbitrary texts between the parentheses
BodyChars == {"a", ",", " ", Q, "1"}

MaxBody == 3

Bodies == SeqsUpTo(BodyChars, MaxBody)

PKWrap(body) ==
    W_PRIMARY \o <<" ">> \o W_KEY \o <<" ", "(">> \o body \o <<")">>

FKWrap(body) ==
    W_FOREIGN_KEY \o <<" ", "(">> \o body \o <<")", " ">> \o W_REFERENCES
    \o <<" ">> \o S \o <<".">> \o U \o <<"(">> \o A \o <<")">>

\* texts that are no constraint definition of their kind at all
Malformed == {<<>>, <<"U", "N", "I", "Q", "U", "E", " ", "(", "a", ")">>,
              W_PRIMARY \o <<" ">> \o W_KEY \o <<" ", "a">>,
              W_PRIMARY \o <<" ">> \o W_KEY \o <<" ", "(", "a">>}

FkColumnLists == {<<A>>, <<A, <<Q, "b", Q>>>>, <<<<Q, "a", " ", "b", Q>>, B>>}

FkSchemas == {None, S, <<Q, "s", Q>>, <<Q, "d", ".", "s", Q>>}

FkTables == {U, <<Q, "u", Q>>, <<Q, "s", ".", "u", Q>>}

\* s.t with one primary key (two rows, one per column) and one foreign key
ParseTable(pkdef, fkdef) ==
    [schema |-> S, name |-> T, relkind |-> "r", diststyle |-> "EVEN",
     view_definition |-> PyNone, oid |-> 11,
     cols |-> <<
        Col(A, Ty(<<"integer">>, <<>>), TRUE, PyNone, PyNone, FALSE, 0, 1),
        Col(B, Ty(<<"integer">>, <<>>), FALSE, PyNone, PyNone, FALSE, 0, 2)>>,
     conrows |-> <<
        Con("p", <<"t", "_", "p", "k">>, <<1, 2>>, 1, A, pkdef),
        Con("p", <<"t", "_", "p", "k">>, <<1, 2>>, 2, B, pkdef),
        Con("f", <<"t", "_", "f", "k">>, <<2>>, 2, B, fkdef)>>]

\* s.u, which has no constraint
PlainTable ==
    [schema |-> S, name |-> U, relkind |-> "r", diststyle |-> "EVEN",
     view_definition |-> PyNone, oid |-> 12,
     cols |-> <<
        Col(A, Ty(<<"integer">>, <<>>), FALSE, PyNone, PyNone, FALSE, 0, 1)>>,
     conrows |-> <<>>]

ParseCatalog(pkdef, fkdef, given, external) ==
    [native |-> <<ParseTable(pkdef, fkdef), PlainTable>>,
     external |-> external, datashare |-> DatashareTables,
     domains |-> <<>>, given |-> given]

ParseCatalogs ==
    {ParseCatalog(PKText(ids), TableFK,
                  [pk |-> [known |-> TRUE, columns |-> ids], fk |-> Raw],
                  ExternalTables) : ids \in IdLists}
    \cup {ParseCatalog(PKWrap(b), FKWrap(b), NoGiven, ExternalTables) :
            b \in Bodies}
    \cup {ParseCatalog(m, m, NoGiven, ExternalTablesReversed) :
            m \in Malformed}
    \cup {ParseCatalog(TablePK, FKText(c, s, t, r),
                       [pk |-> Raw,
                        fk |-> [known |-> TRUE, columns |-> c,
                                schema |-> s, table |-> t,
                                referred |-> r]],
                       ExternalTables) :
            c \in FkColumnLists, s \in FkSchemas, t \in FkTables,
            r \in FkColumnLists}

----------------------------------------------------------------------------
(* Catalogs of the constraint runs: table s.t (columns a, b) carries some  *)
(* of the constraints below.  pg_constraint joined with pg_attribute gives *)
(* one row for each element of conkey; the query orders by schema and      *)
(* table only, so the rows of a table arrive in any order.                 *)

UQText(cols) ==
    <<"U", "N", "I", "Q", "U", "E", " ", "(">> \o Join(cols, <<",", " ">>)
    \o <<")">>

Constraint(contype, conname, conkey, condef) ==
    [contype |-> contype, conname |-> conname, conkey |-> conkey,
     condef |-> condef]

\* pg_attribute of s.t: attnum -> attname
Attname == <<A, B>>

ConPool == <<
    Constraint("f", <<"f", "k", "1">>, <<2>>, FKText(<<B>>, S, U, <<A>>)),
    Constraint("f", <<"f", "k", "2">>, <<1, 2>>,
               FKText(<<A, B>>, None, U, <<A, B>>)),
    Constraint("u", <<"u", "q", "1">>, <<2, 1>>, UQText(<<B, A>>)),
    Constraint("u", <<"u", "q", "2">>, <<1>>, UQText(<<A>>)),
    Constraint("u", <<"u", "q", "3">>, <<1, 2>>, UQText(<<A, B>>)),
    Constraint("p", <<"p", "k">>, <<1, 2>>, PKText(<<A, B>>)) >>

MaxConstraints == 2

\* JOIN pg_attribute a ON a.attnum = ANY(t.conkey)
RowsOfConstraint(c) ==
    [j \in 1..Len(c.conkey) |->
        Con(c.contype, c.conname, c.conkey, c.conkey[j],
            Attname[c.conkey[j]], c.condef)]

Orders(n) == {f \in [1..n -> 1..n] : \A i, j \in 1..n : f[i] = f[j] => i = j}

Arrivals(rows) ==
    {[i \in 1..Len(rows) |-> rows[f[i]]] : f \in Orders(Len(rows))}

ConstraintSets ==
    {cs \in SUBSET (1..Len(ConPool)) : Cardinality(cs) <= MaxConstraints}

ConsTable(conrows) ==
    [schema |-> S, name |-> T, relkind |-> "r", diststyle |-> "EVEN",
     view_definition |-> PyNone, oid |-> 11,
     cols |-> <<
        Col(A, Ty(<<"integer">>, <<>>), TRUE, PyNone, PyNone, FALSE, 0, 1),
        Col(B, Ty(<<"integer">>, <<>>), FALSE, PyNone, PyNone, FALSE, 0, 2)>>,
     conrows |-> conrows]

ConsCatalogsOf(cs, rows) ==
    {[native |-> <<ConsTable(arrival), PlainTable>>,
      external |-> ExternalTables, datashare |-> DatashareTables,
      domains |-> <<>>,
      given |-> [pk |-> Raw, fk |-> Raw,
                 constraints |-> {ConPool[i] : i \in cs}]] :
        arrival \in Arrivals(rows)}

ConsCatalogs ==
    UNION {ConsCatalogsOf(cs,
              Flatten([i \in 1..Len(ConPool) |->
                          IF i \in cs THEN RowsOfConstraint(ConPool[i])
                          ELSE <<>>])) :
           cs \in ConstraintSets}

----------------------------------------------------------------------------
(* Catalogs of the check-constraint runs: pg_constraint rows of contype    *)
(* 'c' for the native tables s.t (oid 11) and s.u (oid 12).  body and      *)
(* not_valid record what a well-formed source was written from.            *)

CheckChars == {"(", ")", "a", " ", NL}

MaxCheckBody == 3

\* the bodies of the samples in get_check_constraints, and the second of
\* them without its outer pair
WrappedSample ==
    <<"(", "(", "a", " ", ">", " ", "1", ")", " ", "A", "N", "D", " ", "(",
      "a", " ", "<", " ", "5", ")", ")">>

FunctionSample == <<"f", "(", "a", ")">>

MultilineSample ==
    <<"(", "(", "a", NL, " ", "<", " ", "1", ")", NL, " ", "O", "R", NL,
      " ", "(", "a", NL, " ", ">", "=", " ", "5", ")", ")", NL>>

BareSample ==
    <<"(", "a", " ", ">", " ", "1", ")", " ", "A", "N", "D", " ", "(", "a",
      " ", "<", " ", "5", ")">>

SampleBodies == {WrappedSample, FunctionSample, MultilineSample, BareSample}

CheckBodies == (SeqsUpTo(CheckChars, MaxCheckBody) \ {<<>>}) \cup SampleBodies

CheckText(body, not_valid) ==
    W_CHECK \o <<" ", "(">> \o body \o <<")">>
    \o (IF not_valid THEN W_NOT_VALID ELSE <<>>)

CheckRow(conrelid, name, body, not_valid) ==
    [conrelid |-> conrelid, name |-> name, src |-> CheckText(body, not_valid),
     wellformed |-> TRUE, body |-> body, not_valid |-> not_valid]

BadCheckRow(conrelid, name, src) ==
    [conrelid |-> conrelid, name |-> name, src |-> src, wellformed |-> FALSE]

\* sources outside the grammar
MalformedChecks ==
    {<<>>, W_CHECK \o <<" ", "a">>, W_CHECK \o <<" ", "(", ")">>,
     <<"(", "a", ")">>, W_CHECK \o <<" ", "(", "a", ")", " ">>,
     W_CHECK \o <<" ", "(", "a", ")">> \o Tail(W_NOT_VALID),
     Tail(W_CHECK) \o <<" ", "(", "a", ")">>}

C1Name == <<"c", "1">>

C2Name == <<"c", "2">>

C3Name == <<"c", "3">>

FirstChecks ==
    {CheckRow(11, C1Name, <<"(", "a", ")">>, nv) : nv \in BOOLEAN}
    \cup {BadCheckRow(11, C1Name, m) : m \in MalformedChecks}

CheckLists ==
    {<<>>}
    \cup {<<CheckRow(11, C1Name, b, nv)>> :
            b \in CheckBodies, nv \in BOOLEAN}
    \cup {<<r1, CheckRow(12, C3Name, <<"a">>, FALSE), r2>> :
            r1 \in FirstChecks,
            r2 \in {CheckRow(11, C2Name, <<"a", "(", "a", ")">>, TRUE),
                    BadCheckRow(11, C2Name, W_CHECK \o <<" ", "a">>)}}

CheckCatalogs ==
    {[native |-> NativeTables, external |-> ExternalTables,
      datashare |-> DatashareTables, domains |-> <<>>, given |-> NoGiven,
      checks |-> cl] : cl \in CheckLists}

----------------------------------------------------------------------------
(* Catalogs of the table-option runs: the columns a and b of s.t carry     *)
(* every pair of sort key ordinals (attsortkeyord: 0 for no sort key,      *)
(* negative in an interleaved key) in which no position is taken twice.    *)

SortKeys == {k \in (0 - MaxSortKey)..MaxSortKey : TRUE}

SortKeyPairs ==
    {p \in SortKeys \X SortKeys :
        p[1] # 0 => (p[1] # p[2] /\ p[1] # 0 - p[2])}

OptionsTable(ka, kb, dist) ==
    [schema |-> S, name |-> T, relkind |-> "r",
     diststyle |-> IF dist THEN "KEY" ELSE "EVEN",
     view_definition |-> PyNone, oid |-> 11,
     cols |-> <<
        Col(A, Ty(<<"integer">>, <<>>), TRUE, PyNone, "lzo", FALSE, ka, 1),
        Col(B, Ty(<<"integer">>, <<>>), FALSE, PyNone, "none", dist, kb, 2)>>,
     conrows |-> <<>>]

OptionCatalogs ==
    {[native |-> <<OptionsTable(p[1], p[2], dist), PlainTable>>,
      external |-> ExternalTables, datashare |-> DatashareTables,
      domains |-> <<>>, given |-> NoGiven] :
        p \in SortKeyPairs, dist \in BOOLEAN}

----------------------------------------------------------------------------
(* Catalogs of the column runs: the columns a (attnum 1) and b (attnum 2)  *)
(* of s.t have every pair of the format_type texts below, and the catalog  *)
(* stores them in either order.                                            *)

VC == "character varying"

FormatTexts ==
    {<<"integer">>, <<VC>>, <<VC, "(", "2", ")">>, <<VC, "(", "1", "2", ")">>,
     <<"numeric", "(", "1", "2", ",", "2", ")">>, <<"d1">>, <<"y">>}

ColumnsTable(ta, tb, swapped) ==
    LET a == Col(A, FormatType(ta), TRUE, PyNone, "lzo", FALSE, 0, 1)
        b == Col(B, FormatType(tb), FALSE, PyNone, PyNone, FALSE, 0, 2)
    IN  [schema |-> S, name |-> T, relkind |-> "r", diststyle |-> "EVEN",
         view_definition |-> PyNone, oid |-> 11,
         cols |-> IF swapped THEN <<b, a>> ELSE <<a, b>>,
         conrows |-> <<>>]

ColumnCatalogs ==
    {[native |-> <<ColumnsTable(ta, tb, sw), PlainTable>>,
      external |-> ExternalTables, datashare |-> DatashareTables,
      domains |-> d, given |-> NoGiven] :
        ta \in FormatTexts, tb \in FormatTexts, sw \in BOOLEAN,
        d \in DomainCatalogs}

----------------------------------------------------------------------------
(* Catalogs of the relation runs: pg_class holds s.t as a table, a view or *)
(* a materialized view, and may hold s.u, s."w" (a name written with its   *)
(* quotes) and v in the default schema, beside the external table x.u and  *)
(* the datashare table d.s.t.                                              *)

QW == <<Q, "w", Q>>

Absent0 == "absent"

Relation(schema, name, relkind, oid) ==
    IF relkind = Absent0 THEN <<>>
    ELSE <<[schema |-> schema, name |-> name, relkind |-> relkind,
            diststyle |-> IF relkind = "r" THEN "EVEN" ELSE PyNone,
            view_definition |-> IF relkind = "v" THEN "SELECT 1" ELSE PyNone,
            oid |-> oid,
            cols |-> <<Col(A, Ty(<<"integer">>, <<>>), FALSE, PyNone, PyNone,
                           FALSE, 0, 1)>>,
            conrows |-> <<>>]>>

RelationCatalogs ==
    {[native |-> Relation(S, T, kt, 11) \o Relation(S, U, ku, 12)
                 \o Relation(DefaultSchema, V, kv, 13)
                 \o Relation(S, QW, kw, 14),
      external |-> ExternalTables, datashare |-> DatashareTables,
      domains |-> <<>>, given |-> NoGiven] :
        kt \in {"r", "v", "m"}, ku \in {Absent0, "r", "v"},
        kv \in {Absent0, "r", "v"}, kw \in {Absent0, "r"}}

----------------------------------------------------------------------------
(* Catalogs of the type-resolution runs: every domain list over the names  *)
(* d1 and d2, each based on d1, d2 or integer                              *)

DomainBases == {<<"d1">>, <<"d2">>, <<"integer">>}

DomainLists ==
    {<<Dom("d1", Ty(b1, <<>>), n1, PyNone, TRUE, "public"),
       Dom("d2", Ty(b2, <<>>), n2, df, TRUE, "public")>> :
        b1 \in DomainBases, b2 \in DomainBases, n1 \in BOOLEAN,
        n2 \in BOOLEAN, df \in {PyNone, "0"}}

ResolveCatalogs ==
    {[native |-> NativeTables, external |-> ExternalTables,
      datashare |-> DatashareTables, domains |-> d, given |-> NoGiven] :
        d \in DomainLists}

\* the columns whose type is resolved
ResolveColumns ==
    {Col(A, Ty(t, <<>>), nn, PyNone, PyNone, FALSE, 0, 1) :
        t \in {<<"d1">>, <<"d2">>, <<"integer">>, <<"y">>}, nn \in BOOLEAN}

----------------------------------------------------------------------------
(* The dialect instance and its callers *)

VARIABLES
    db,           \* the catalog the connection queries
    _domains,     \* self._domains
    info_cache,   \* the info_cache the caller passes along
    ncalls,       \* reflection calls made so far
    domainLoads,  \* completed runs of _load_domains
    returned,     \* what each call with the info_cache first returned
    last,         \* the last call: arguments, outcome, queries executed
    rs            \* _get_column_info in progress (its loop state), or idle

vars == <<db, _domains, info_cache, ncalls, domainLoads, returned, last, rs>>

MaxCalls == 2

MaxParses == 1

\* the (table_name, schema) arguments the callers use
Requests == {<<T, S>>, <<U, S>>, <<T, SQ>>, <<T, DS>>, <<U, E>>, <<V, None>>,
             <<U, DS>>}

ParseRequests == {<<T, S>>, <<U, S>>, <<U, E>>}

\* at most one kind of query raises during a call
Faults(kinds) == {{}} \cup {{k} : k \in kinds}

Idle == [active |-> FALSE]

NoCall == [op |-> "none", table |-> <<>>, schema |-> <<>>, ic |-> FALSE,
           fails |-> {}, outcome |-> "none", result |-> <<>>, nq |-> ZeroQ,
           hit |-> FALSE, lookups |-> <<>>, seen |-> FALSE, prior |-> <<>>]

InitWith(catalogs) ==
    /\ db \in catalogs
    /\ _domains = NoDomains
    /\ info_cache = EmptyCache
    /\ ncalls = 0
    /\ domainLoads = 0
    /\ returned = [k \in {} |-> 0]
    /\ last = NoCall
    /\ rs = Idle

Init == InitWith(Catalogs)

InitParse == InitWith(ParseCatalogs)

InitResolve == InitWith(ResolveCatalogs)

\* the state after one call of method op whose run is r
Called(op, table_name, schema, ic, fails, r) ==
    /\ ncalls' = ncalls + 1
    /\ info_cache' = r.cache
    /\ _domains' = r.domains
    /\ domainLoads' = IF r.nq["domains"] = 1 /\ r.outcome = "return"
                      THEN domainLoads + 1 ELSE domainLoads
    /\ returned' = IF ic /\ r.outcome = "return"
                      /\ <<op, table_name, schema>> \notin DOMAIN returned
                   THEN (<<op, table_name, schema>> :> r.result) @@ returned
                   ELSE returned
    /\ last' = [op |-> op, table |-> table_name, schema |-> schema,
                ic |-> ic, fails |-> fails, outcome |-> r.outcome,
                result |-> r.result, nq |-> r.nq, hit |-> r.hit,
                lookups |-> r.lookups,
                seen |-> ic /\ <<op, table_name, schema>> \in DOMAIN returned,
                prior |-> IF ic /\ <<op, table_name, schema>>
                                   \in DOMAIN returned
                          THEN returned[<<op, table_name, schema>>]
                          ELSE <<>>]
    /\ UNCHANGED <<db, rs>>

GetColumns ==
    /\ ncalls < MaxCalls
    /\ \E rq \in Requests, ic \in BOOLEAN,
          fails \in Faults({"columns", "domains"}) :
        \E r \in {get_columns(db, _domains, info_cache, ic, fails,
                              rq[1], rq[2])} :
            Called("get_columns", rq[1], rq[2], ic, fails, r)

GetPkConstraintOf(requests, kinds, limit) ==
    /\ ncalls < limit
    /\ \E rq \in requests, ic \in BOOLEAN, fails \in Faults(kinds) :
        \E r \in {get_pk_constraint(db, _domains, info_cache, ic, fails,
                                    rq[1], rq[2])} :
            Called("get_pk_constraint", rq[1], rq[2], ic, fails, r)

GetPkConstraint == GetPkConstraintOf(Requests, {"constraints"}, MaxCalls)

GetForeignKeysOf(requests, kinds, limit) ==
    /\ ncalls < limit
    /\ \E rq \in requests, ic \in BOOLEAN, fails \in Faults(kinds) :
        \E r \in {get_foreign_keys(db, _domains, info_cache, ic, fails,
                                   rq[1], rq[2])} :
            Called("get_foreign_keys", rq[1], rq[2], ic, fails, r)

GetForeignKeys == GetForeignKeysOf(Requests, {"constraints"}, MaxCalls)

GetUniqueConstraints ==
    /\ ncalls < MaxCalls
    /\ \E rq \in Requests, ic \in BOOLEAN, fails \in Faults({"constraints"}) :
        \E r \in {get_unique_constraints(db, _domains, info_cache, ic, fails,
                                         rq[1], rq[2])} :
            Called("get_unique_constraints", rq[1], rq[2], ic, fails, r)

GetTableOptions ==
    /\ ncalls < MaxCalls
    /\ \E rq \in Requests, ic \in BOOLEAN,
          fails \in Faults({"relations", "columns"}) :
        \E r \in {get_table_options(db, _domains, info_cache, ic, fails,
                                    rq[1], rq[2])} :
            Called("get_table_options", rq[1], rq[2], ic, fails, r)

GetViewDefinition ==
    /\ ncalls < MaxCalls
    /\ \E rq \in Requests, ic \in BOOLEAN, fails \in Faults({"relations"}) :
        \E r \in {get_view_definition(db, _domains, info_cache, ic, fails,
                                      rq[1], rq[2])} :
            Called("get_view_definition", rq[1], rq[2], ic, fails, r)

GetTableOid ==
    /\ ncalls < MaxCalls
    /\ \E rq \in Requests, ic \in BOOLEAN,
          fails \in Faults({"oid_cast", "external_tables",
                            "redshift_tables"}) :
        \E r \in {get_table_oid(db, _domains, info_cache, ic, fails,
                                rq[1], rq[2])} :
            Called("get_table_oid", rq[1], rq[2], ic, fails, r)

Next ==
    \/ GetColumns
    \/ GetPkConstraint
    \/ GetForeignKeys
    \/ GetUniqueConstraints
    \/ GetTableOptions
    \/ GetViewDefinition
    \/ GetTableOid

\* every method of the reflection API, called in any order
Spec == Init /\ [][Next]_vars

\* the methods that go through the three lookups (columns, constraints,
\* relation and columns)
NextLookup ==
    \/ GetColumns
    \/ GetPkConstraint
    \/ GetTableOptions

SpecLookup == Init /\ [][NextLookup]_vars

\* get_table_oid alone
SpecOid == Init /\ [][GetTableOid]_vars

\* the constraint parsers, on the catalogs of the parser runs
ParsePk == GetPkConstraintOf(ParseRequests, {}, MaxParses)

ParseFk == GetForeignKeysOf(ParseRequests, {}, MaxParses)

NextParse ==
    \/ ParsePk
    \/ ParseFk

SpecParse == InitParse /\ [][NextParse]_vars

\* the constraint aggregators, on the catalogs of the constraint runs
InitCons == InitWith(ConsCatalogs)

ConsRequests == {<<T, S>>, <<U, S>>}

ConsFk == GetForeignKeysOf(ConsRequests, {}, MaxParses)

ConsUnique ==
    /\ ncalls < MaxParses
    /\ \E rq \in ConsRequests, ic \in BOOLEAN :
        \E r \in {get_unique_constraints(db, _domains, info_cache, ic, {},
                                         rq[1], rq[2])} :
            Called("get_unique_constraints", rq[1], rq[2], ic, {}, r)

NextCons ==
    \/ ConsFk
    \/ ConsUnique

SpecCons == InitCons /\ [][NextCons]_vars

\* get_check_constraints, on the catalogs of the check-constraint runs
InitCheck == InitWith(CheckCatalogs)

CheckRequests == {<<T, S>>, <<U, S>>, <<U, E>>, <<V, S>>}

GetCheckConstraints ==
    /\ ncalls < MaxParses
    /\ \E rq \in CheckRequests, ic \in BOOLEAN,
          fails \in Faults({"oid_cast", "external_tables", "checks"}) :
        \E r \in {get_check_constraints(db, _domains, info_cache, ic, fails,
                                        rq[1], rq[2])} :
            Called("get_check_constraints", rq[1], rq[2], ic, fails, r)

SpecCheck == InitCheck /\ [][GetCheckConstraints]_vars

\* get_table_options, on the catalogs of the table-option runs
InitOptions == InitWith(OptionCatalogs)

SpecOptions == InitOptions /\ [][GetTableOptions]_vars

\* get_columns, on the catalogs of the column runs
InitColumns == InitWith(ColumnCatalogs)

ColumnRequests == {<<T, S>>, <<T, SQ>>, <<U, S>>, <<U, E>>}

ReflectColumns ==
    /\ ncalls < MaxParses
    /\ \E rq \in ColumnRequests, ic \in BOOLEAN :
        \E r \in {get_columns(db, _domains, info_cache, ic, {},
                              rq[1], rq[2])} :
            Called("get_columns", rq[1], rq[2], ic, {}, r)

SpecColumns == InitColumns /\ [][ReflectColumns]_vars

\* has_table, get_table_names and get_view_names, on the catalogs of the
\* relation runs
InitRelations == InitWith(RelationCatalogs)

HasTableRequests ==
    {<<T, S>>, <<U, S>>, <<V, None>>, <<V, <<>>>>, <<T, SQ>>, <<T, DS>>,
     <<U, E>>, <<U, DS>>, <<QW, S>>}

SchemaRequests == {S, None, <<>>, E, DS, SQ}

HasTable ==
    /\ ncalls < MaxParses
    /\ \E rq \in HasTableRequests, ic \in BOOLEAN,
          fails \in Faults({"relations"}) :
        \E r \in {has_table(db, _domains, info_cache, ic, fails,
                            rq[1], rq[2])} :
            Called("has_table", rq[1], rq[2], ic, fails, r)

GetTableNames ==
    /\ ncalls < MaxParses
    /\ \E schema \in SchemaRequests, ic \in BOOLEAN :
        \E r \in {get_table_names(db, _domains, info_cache, ic, {}, schema)} :
            Called("get_table_names", None, schema, ic, {}, r)

GetViewNames ==
    /\ ncalls < MaxParses
    /\ \E schema \in SchemaRequests, ic \in BOOLEAN :
        \E r \in {get_view_names(db, _domains, info_cache, ic, {}, schema)} :
            Called("get_view_names", None, schema, ic, {}, r)

NextRelations ==
    \/ HasTable
    \/ GetTableNames
    \/ GetViewNames

SpecRelations == InitRelations /\ [][NextRelations]_vars

----------------------------------------------------------------------------
(* _get_column_info, statement by statement through its "while True" loop *)

\* the call enters the loop, with the domains of the catalog
ResolveBegin ==
    /\ ~rs.active
    /\ ncalls < MaxCalls
    /\ \E col \in ResolveColumns :
        rs' = [active |-> TRUE, pc |-> "while", col |-> col,
               domains |-> LoadDomains(db.domains),
               st |-> ResolveStart(col.format_type, col.default, col.notnull)]
    /\ ncalls' = ncalls + 1
    /\ UNCHANGED <<db, _domains, info_cache, domainLoads, returned, last>>

\* one pass from the loop head to "break" or to "continue"
ResolveTest ==
    /\ rs.active /\ rs.pc = "while"
    /\ \E st \in {LoopBody(rs.st, rs.domains)} :
        rs' = [rs EXCEPT !.st = st,
                         !.pc = IF st.done THEN "break" ELSE "continue"]
    /\ UNCHANGED <<db, _domains, info_cache, ncalls, domainLoads, returned,
                   last>>

\* "continue": back to the loop head
ResolveContinue ==
    /\ rs.active /\ rs.pc = "continue"
    /\ rs' = [rs EXCEPT !.pc = "while"]
    /\ UNCHANGED <<db, _domains, info_cache, ncalls, domainLoads, returned,
                   last>>

\* after the loop: the column_info is built and returned
ResolveEnd ==
    /\ rs.active /\ rs.pc = "break"
    /\ rs' = Idle
    /\ last' = [NoCall EXCEPT !.op = "_get_column_info",
                              !.outcome = "return",
                              !.result = ColumnInfo(rs.col, rs.st)]
    /\ UNCHANGED <<db, _domains, info_cache, ncalls, domainLoads, returned>>

NextResolve ==
    \/ ResolveBegin
    \/ ResolveTest
    \/ ResolveContinue
    \/ ResolveEnd

\* a call that is running keeps running: the interpreter executes its next
\* statement
SpecResolve ==
    /\ InitResolve
    /\ [][NextResolve]_vars
    /\ WF_vars(ResolveTest)
    /\ WF_vars(ResolveContinue)
    /\ WF_vars(ResolveEnd)

----------------------------------------------------------------------------
(* The text helpers, called on their own: unquote, RelationKey._unquote,   *)
(* RelationKey.unquoted and parse_datashare on every text of up to MaxText *)
(* characters over a double quote, a letter and a dot, and on None         *)

TextChars == {Q, "a", "."}

MaxText == 3

\* a schema text of three parts
ThreeParts == <<"a", ".", "a", ".", "a">>

\* a schema text with a dot between double quotes
QuotedDotted == <<Q, "d", ".", "s", Q>>

Texts == SeqsUpTo(TextChars, MaxText) \cup {ThreeParts, QuotedDotted}

\* the datashare name in the datashare_clause of each bulk query, None when
\* the clause is empty: _get_all_relation_info tests has_datashare,
\* _get_schema_column_info unquotes the schema first and tests the name,
\* _get_all_constraint_info tests the name
RelationsDatashare(schema) ==
    LET pd == parse_datashare(schema)
    IN  IF pd.has_datashare THEN pd.datashare ELSE None

ColumnsDatashare(schema) ==
    LET pd == parse_datashare(unquote(schema))
    IN  IF pd.datashare # None /\ pd.datashare # <<>> THEN pd.datashare
        ELSE None

ConstraintsDatashare(schema) ==
    LET pd == parse_datashare(schema)
    IN  IF pd.datashare # None /\ pd.datashare # <<>> THEN pd.datashare
        ELSE None

NoCatalog ==
    [native |-> <<>>, external |-> <<>>, datashare |-> <<>>,
     domains |-> <<>>, given |-> NoGiven]

InitStrings == InitWith({NoCatalog})

\* the state after the helper op returned result for (table, schema); each
\* behaviour applies one helper to one input
Applied(op, table_name, schema, result) ==
    /\ ncalls' = ncalls + 1
    /\ last' = [NoCall EXCEPT !.op = op, !.table = table_name,
                              !.schema = schema, !.outcome = "return",
                              !.result = result]
    /\ UNCHANGED <<db, _domains, info_cache, domainLoads, returned, rs>>

CallUnquote ==
    /\ ncalls = 0
    /\ \E text \in Texts \cup {None} :
        Applied("unquote", text, None, unquote(text))

CallKeyUnquote ==
    /\ ncalls = 0
    /\ \E part \in Texts \cup {None} :
        Applied("_unquote", part, None, _unquote(part))

CallUnquoted ==
    /\ ncalls = 0
    /\ \E name \in Texts, schema \in Texts :
        Applied("unquoted", name, schema, unquoted(RelationKey(name, schema)))

CallParseDatashare ==
    /\ ncalls = 0
    /\ \E schema \in Texts \cup {None} :
        Applied("parse_datashare", None, schema, parse_datashare(schema))

\* the three bulk queries build their datashare clause for one schema
BuildDatashareClauses ==
    /\ ncalls = 0
    /\ \E schema \in Texts \cup {None} :
        Applied("datashare_clause", None, schema,
                [relations |-> RelationsDatashare(schema),
                 columns |-> ColumnsDatashare(schema),
                 constraints |-> ConstraintsDatashare(schema)])

NextStrings ==
    \/ BuildDatashareClauses
    \/ CallUnquote
    \/ CallKeyUnquote
    \/ CallUnquoted
    \/ CallParseDatashare

SpecStrings == InitStrings /\ [][NextStrings]_vars

----------------------------------------------------------------------------
(* Two get_columns calls on one dialect instance, each on its own          *)
(* connection and thread, statement by statement.  rs holds the two calls: *)
(* where each stands, the rows and the dictionary of its _load_domains,    *)
(* and the mapping it resolves its columns against.                        *)

Threads == {1, 2}

RaceRequests == {<<T, S>>, <<U, E>>}

NewCall(rq) ==
    [pc |-> "start", rq |-> rq, cols |-> <<>>, rows |-> <<>>,
     local |-> NoDomains.map, domains |-> NoDomains, loads |-> 0,
     result |-> <<>>]

InitRace ==
    /\ db \in Catalogs
    /\ _domains = NoDomains
    /\ info_cache = EmptyCache
    /\ ncalls = 0
    /\ domainLoads = 0
    /\ returned = [k \in {} |-> 0]
    /\ last = NoCall
    /\ rs \in {[active |-> TRUE, call |-> [t \in Threads |-> NewCall(rq[t])]] :
                 rq \in [Threads -> RaceRequests]}

\* thread t moves on; self._domains is the only state the threads share
Step(t, call, domains) ==
    /\ rs' = [rs EXCEPT !.call[t] = call]
    /\ _domains' = domains
    /\ domainLoads' = domainLoads + (call.loads - rs.call[t].loads)
    /\ UNCHANGED <<db, info_cache, ncalls, returned, last>>

\* a loop that builds the dictionary in self._domains itself
AfterRowShared(domains, local) == [loaded |-> TRUE, map |-> local]

\* self._domains after one round of the loop of _load_domains, which fills
\* a dictionary of its own
AfterRow(domains, local) == domains

\* "cols = self._get_redshift_columns(...)"
RaceColumns(t) ==
    /\ rs.call[t].pc = "start"
    /\ \E r \in {_get_redshift_columns(db, EmptyCache, FALSE, FALSE,
                                       rs.call[t].rq[1], rs.call[t].rq[2])} :
        Step(t, [rs.call[t] EXCEPT
                    !.pc = IF r.outcome = "return" THEN "test" ELSE "raised",
                    !.cols = r.v],
             _domains)

\* "if not self._domains"
RaceTest(t) ==
    /\ rs.call[t].pc = "test"
    /\ Step(t, [rs.call[t] EXCEPT
                   !.pc = IF DomainsMissing(_domains) THEN "execute"
                          ELSE "read"],
            _domains)

\* _load_domains: the domain query is executed, "domains = {}"
RaceExecute(t) ==
    /\ rs.call[t].pc = "execute"
    /\ Step(t, [rs.call[t] EXCEPT !.pc = "for", !.rows = db.domains,
                                  !.local = NoDomains.map, !.loads = @ + 1],
            _domains)

\* one round of "for domain in c.mappings()": domains[key] = {...}
RaceRow(t) ==
    /\ rs.call[t].pc = "for" /\ Len(rs.call[t].rows) > 0
    /\ \E local \in {(DomainKey(rs.call[t].rows[1])
                        :> DomainEntry(rs.call[t].rows[1]))
                     @@ rs.call[t].local} :
        Step(t, [rs.call[t] EXCEPT !.rows = Tail(@), !.local = local],
             AfterRow(_domains, local))

\* "return domains" and "self._domains = ...": one reference is stored
RaceAssign(t) ==
    /\ rs.call[t].pc = "for" /\ Len(rs.call[t].rows) = 0
    /\ Step(t, [rs.call[t] EXCEPT !.pc = "read"],
            [loaded |-> TRUE, map |-> rs.call[t].local])

\* "domains = self._domains"
RaceRead(t) ==
    /\ rs.call[t].pc = "read"
    /\ Step(t, [rs.call[t] EXCEPT !.pc = "resolve", !.domains = _domains],
            _domains)

\* the list of column_info of the rows, resolved against domains
RaceResolve(t) ==
    /\ rs.call[t].pc = "resolve"
    /\ Step(t, [rs.call[t] EXCEPT
                   !.pc = "done",
                   !.result = [i \in 1..Len(rs.call[t].cols) |->
                                  _get_redshift_column_info(
                                      rs.call[t].cols[i],
                                      rs.call[t].domains.map)]],
            _domains)

NextRace ==
    \E t \in Threads :
        \/ RaceColumns(t)
        \/ RaceTest(t)
        \/ RaceExecute(t)
        \/ RaceRow(t)
        \/ RaceAssign(t)
        \/ RaceRead(t)
        \/ RaceResolve(t)

SpecRace == InitRace /\ [][NextRace]_vars

----------------------------------------------------------------------------
(* _get_column_info on sequence-linked defaults: the default texts are     *)
(* written from an opening text, nextval(', a sequence name, the closing   *)
(* quote or none, and a rest; the column is of an integer, a character,    *)
(* an array or an unknown type, with or without an identity spec.          *)

MaxSeqName == 2

SeqNames == SeqsUpTo({"s", "."}, MaxSeqName)

DefaultParts ==
    {[known |-> TRUE, p |-> p, n |-> n, q |-> q, t |-> t] :
        p \in {<<>>, <<"(">>}, n \in SeqNames, q \in {<<"'">>, <<>>},
        t \in {<<>>, <<")">>, <<LF>>, <<LF, ")">>}}

DefaultText(g) == g.p \o W_NEXTVAL \o g.n \o g.q \o g.t

\* a default that is None, or a text that does not name a sequence
OtherDefaults == {None, <<"0">>}

ColumnTypes ==
    {<<"integer">>, <<"bigint">>, <<"integer", "[]">>,
     <<VC, "(", "2", ")">>, <<"y">>}

IdentitySpecs == {None, <<"1", ",", "1">>}

InitDefault == InitWith({NoCatalog})

\* what the last call of _get_column_info was given, and what it returned
Adjusted(g, default, type, identity, r) ==
    /\ ncalls' = ncalls + 1
    /\ last' = [NoCall EXCEPT !.op = "_get_column_info", !.table = A,
                              !.schema = S, !.outcome = "return",
                              !.result = r,
                              !.prior = [parts |-> g, default |-> default,
                                         type |-> type,
                                         identity |-> identity]]
    /\ UNCHANGED <<db, _domains, info_cache, domainLoads, returned, rs>>

AdjustSequenceDefault ==
    /\ ncalls = 0
    /\ \E g \in DefaultParts, type \in ColumnTypes,
          identity \in IdentitySpecs :
        \E r \in {_get_column_info(A, FormatType(type), DefaultText(g),
                                   FALSE, S, identity)} :
            Adjusted(g, DefaultText(g), type, identity, r)

KeepOtherDefault ==
    /\ ncalls = 0
    /\ \E default \in OtherDefaults, type \in ColumnTypes,
          identity \in IdentitySpecs :
        \E r \in {_get_column_info(A, FormatType(type), default, FALSE, S,
                                   identity)} :
            Adjusted([known |-> FALSE], default, type, identity, r)

NextDefault ==
    \/ AdjustSequenceDefault
    \/ KeepOtherDefault

SpecDefault == InitDefault /\ [][NextDefault]_vars

----------------------------------------------------------------------------
(* Properties *)

\* "one level of double quotes removed"
StripQuotes(p) ==
    IF p # None /\ Len(p) >= 2 /\ p[1] = Q /\ p[Len(p)] = Q
    THEN SubSeq(p, 2, Len(p) - 1)
    ELSE p

\* C1: over any sequence of get_columns calls on one dialect instance the
\* domain query (_load_domains) is executed at most once, whatever it
\* returns, an empty domain list included.
C1_DomainsLoadedAtMostOnce == domainLoads <= 1

\* C2: a second get_columns for the same table and schema with the same
\* info_cache returns what the first returned and executes no query.
C2_SecondCallFromCache ==
    (last.op = "get_columns" /\ last.seen)
        => /\ last.outcome = "return"
           /\ last.result = last.prior
           /\ last.nq = ZeroQ

\* a second get_columns call for s.t, whose first call returned two columns
C2_Witness ==
    /\ last.op = "get_columns" /\ last.seen
    /\ last.table = T /\ last.schema = S
    /\ Len(last.prior) = 2

\* C3: with one info_cache, get_columns for two different tables of the
\* same schema executes the columns query once in total: the call for the
\* second table executes none.
C3_ColumnsFetchedOncePerSchema ==
    (/\ last.op = "get_columns" /\ last.ic /\ last.outcome = "return"
     /\ \E k \in DOMAIN returned :
            k[1] = "get_columns" /\ k[3] = last.schema /\ k[2] # last.table)
        => last.nq["columns"] = 0

\* C4: the type resolution of a column terminates for every domain mapping,
\* cyclic ones included: a call of _get_column_info that is running
\* eventually leaves its loop and returns.
C4_ResolutionTerminates == rs.active ~> ~rs.active

\* what the regclass cast of the last get_table_oid call yields (0: it
\* raised), and what its fallback query is and finds
OidOfCast ==
    IF "oid_cast" \in last.fails THEN 0
    ELSE OidCast(db, last.schema, last.table)

FallbackKind ==
    IF parse_datashare(last.schema).has_datashare THEN "redshift_tables"
    ELSE "external_tables"

FallbackFinds ==
    IF parse_datashare(last.schema).has_datashare
    THEN RedshiftTablesQuery(db, parse_datashare(last.schema).datashare,
                             parse_datashare(last.schema).schema, last.table)
    ELSE ExternalTablesQuery(db, last.schema, last.table)

FallbackIssued ==
    last.nq["external_tables"] + last.nq["redshift_tables"] > 0

CastReturned ==
    /\ OidOfCast # 0
    /\ last.outcome = "return" /\ last.result = OidOfCast
    /\ last.nq = One("oid_cast")

FallbackFound ==
    /\ OidOfCast = 0 /\ FallbackFinds
    /\ last.outcome = "return" /\ last.result = None
    /\ last.nq = Plus(One("oid_cast"), One(FallbackKind))

CastErrorRaised ==
    /\ OidOfCast = 0 /\ ~FallbackFinds
    /\ last.outcome = "CastError"
    /\ last.nq = Plus(One("oid_cast"), One(FallbackKind))

FallbackErrorRaised ==
    /\ OidOfCast = 0 /\ FallbackKind \in last.fails
    /\ last.outcome = "QueryError"
    /\ last.nq = Plus(One("oid_cast"), One(FallbackKind))

\* C5, as stated: a get_table_oid call that runs has exactly three
\* outcomes: the oid of the cast after one query; None when the cast failed
\* and the fallback catalog has the table; the error of the cast when the
\* fallback finds no row.
C5_ThreeOutcomes ==
    (last.op = "get_table_oid" /\ ~last.hit)
        => CastReturned \/ FallbackFound \/ CastErrorRaised

\* C5, amended: a get_table_oid call that is not answered from the
\* info_cache has four outcomes: the three of the claim, when the fallback
\* query executes, and the error of the fallback query when that query
\* raises; the fallback query is issued only after the cast failed.
C5_FourOutcomes ==
    (last.op = "get_table_oid" /\ ~last.hit)
        => /\ \/ CastReturned
              \/ FallbackKind \notin last.fails /\ FallbackFound
              \/ FallbackKind \notin last.fails /\ CastErrorRaised
              \/ FallbackErrorRaised
           /\ FallbackIssued => OidOfCast = 0

\* get_table_oid returned None for the external table x.u
C5_Witness ==
    /\ last.op = "get_table_oid" /\ ~last.hit
    /\ last.table = U /\ last.schema = E
    /\ FallbackFound

\* the relations the catalog sources hold, as (name, schema)
CatalogNames ==
    {<<db.native[i].name, db.native[i].schema>> : i \in 1..Len(db.native)}
    \cup {<<db.external[i].name, db.external[i].schema>> :
            i \in 1..Len(db.external)}
    \cup {<<db.datashare[i].name,
            db.datashare[i].database \o <<".">> \o db.datashare[i].schema>> :
            i \in 1..Len(db.datashare)}

SchemaOf(schema) == IF schema = None THEN DefaultSchema ELSE schema

\* in none of the catalog sources, under the quoted or the unquoted key
Absent(table_name, schema) ==
    /\ <<table_name, SchemaOf(schema)>> \notin CatalogNames
    /\ <<StripQuotes(table_name), StripQuotes(SchemaOf(schema))>>
           \notin CatalogNames

SingleRelationOps ==
    {"get_columns", "get_pk_constraint", "get_foreign_keys",
     "get_unique_constraints", "get_table_options", "get_view_definition"}

\* C6: each reflection operation on a single relation fails with
\* NoSuchTableError when the relation is in none of the catalog sources,
\* under its quoted and its unquoted key.
C6_MissingRelationRaises ==
    (/\ last.op \in SingleRelationOps /\ ~last.hit /\ last.fails = {}
     /\ Absent(last.table, last.schema))
        => last.outcome = "NoSuchTableError"

UnquotedKey(key) ==
    [name |-> StripQuotes(key.name), schema |-> StripQuotes(key.schema)]

\* C7: a lookup whose bulk result has no entry under the key as supplied
\* but has one under the key with the quotes removed returns the entry of
\* the unquoted key; a lookup whose bulk result has an entry under the key
\* as supplied returns that entry.
C7_UnquotedFallback ==
    \A i \in 1..Len(last.lookups) :
        /\ last.lookups[i].key \in DOMAIN last.lookups[i].all
            => /\ last.lookups[i].used = last.lookups[i].key
               /\ last.lookups[i].found
               /\ last.lookups[i].entry =
                      last.lookups[i].all[last.lookups[i].key]
        /\ (/\ last.lookups[i].key \notin DOMAIN last.lookups[i].all
            /\ UnquotedKey(last.lookups[i].key) \in DOMAIN last.lookups[i].all)
            => /\ last.lookups[i].used = UnquotedKey(last.lookups[i].key)
               /\ last.lookups[i].found
               /\ last.lookups[i].entry =
                      last.lookups[i].all[UnquotedKey(last.lookups[i].key)]

\* a lookup that found its entry under the unquoted key only
C7_Witness ==
    \E i \in 1..Len(last.lookups) :
        /\ last.lookups[i].key \notin DOMAIN last.lookups[i].all
        /\ last.lookups[i].found
        /\ Len(last.lookups[i].entry) > 0

\* the rows of the constraints lookup of the last call
LookedUpRows ==
    IF Len(last.lookups) = 0 THEN <<>> ELSE last.lookups[1].entry

\* C8: for a table whose primary-key text is PRIMARY KEY (c1, ..., cn),
\* get_pk_constraint returns the identifiers c1..cn in the order of the
\* text, quoted ones with their quotes, and the conname of the row; for a
\* table without a primary-key row it returns no column and the name ''.
C8_PrimaryKeyColumns ==
    last.op = "get_pk_constraint"
        => /\ (last.table = T /\ last.schema = S /\ db.given.pk.known)
                => /\ last.outcome = "return"
                   /\ last.result =
                        [constrained_columns |-> db.given.pk.columns,
                         name |-> db.native[1].conrows[1].conname]
           /\ (~last.hit /\ Len(SelectSeq(LookedUpRows, IsPK)) = 0)
                => /\ last.outcome = "return"
                   /\ last.result =
                        [constrained_columns |-> <<>>, name |-> <<>>]

\* a primary key of two columns, the second one quoted, was returned
C8_Witness ==
    /\ last.op = "get_pk_constraint" /\ last.table = T /\ last.schema = S
    /\ db.given.pk.known
    /\ Len(last.result.constrained_columns) = 2
    /\ last.result.constrained_columns[2][1] = Q
    /\ last.result.constrained_columns[1] # last.result.constrained_columns[2]

NoPkMatch(c) == IsPK(c) /\ ~PRIMARY_KEY_RE_match(c.condef).matched

NoFkMatch(c) == IsFK(c) /\ ~FOREIGN_KEY_RE_match(c.condef).matched

C10_ForeignKeyEntry ==
    (/\ last.op = "get_foreign_keys" /\ last.table = T /\ last.schema = S
     /\ db.given.fk.known)
        => /\ last.outcome = "return"
           /\ last.result =
                <<[name |-> db.native[1].conrows[3].conname,
                   constrained_columns |-> db.given.fk.columns,
                   referred_schema |-> StripQuotes(db.given.fk.schema),
                   referred_table |-> StripQuotes(db.given.fk.table),
                   referred_columns |-> db.given.fk.referred]>>

\* a foreign key to a quoted table of a quoted schema was returned
C10_Witness ==
    /\ last.op = "get_foreign_keys" /\ last.table = T /\ last.schema = S
    /\ db.given.fk.known
    /\ db.given.fk.schema = <<Q, "s", Q>>
    /\ db.given.fk.table = <<Q, "u", Q>>
    /\ last.outcome = "return"
    /\ last.result[1].referred_schema = S
    /\ last.result[1].referred_table = U

----------------------------------------------------------------------------
(* Constraint aggregation *)

\* the constraints of kind contype that the catalog holds for the table of
\* the last call
GivenOf(contype) ==
    IF last.table = T /\ last.schema = S
    THEN {c \in db.given.constraints : c.contype = contype}
    ELSE {}

EntryNames(result) == {result[i].name : i \in 1..Len(result)}

\* C11: get_foreign_keys returns one entry for each distinct constraint
\* name among the contype 'f' rows of the table, however many rows share
\* the name, and no entry for a row of another constraint type
C11_OneEntryPerForeignKey ==
    (last.op = "get_foreign_keys" /\ last.outcome = "return")
        => /\ EntryNames(last.result)
                = {c.conname : c \in GivenOf("f")}
           /\ Len(last.result) = Cardinality(GivenOf("f"))

\* a two-column foreign key (two rows of one name) next to a constraint of
\* another type: one entry
C11_Witness ==
    /\ last.op = "get_foreign_keys" /\ last.outcome = "return"
    /\ \E c \in GivenOf("f") : Len(c.conkey) = 2
    /\ \E c \in db.given.constraints : c.contype # "f"
    /\ Len(last.result) = 1

\* C12: for each unique constraint of the table, get_unique_constraints
\* returns one entry whose i-th column name is the attname of the column
\* whose attnum is the i-th element of conkey, whatever the arrival order
\* of the constraint's rows
C12_UniqueColumnsFollowConkey ==
    (last.op = "get_unique_constraints" /\ last.outcome = "return")
        => /\ Len(last.result) = Cardinality(GivenOf("u"))
           /\ \A c \in GivenOf("u") :
                \E i \in 1..Len(last.result) :
                    /\ last.result[i].name = c.conname
                    /\ last.result[i].column_names
                         = [j \in 1..Len(c.conkey) |-> Attname[c.conkey[j]]]

\* the rows of the constraint on (b, a) arrive with a's row first
C12_Witness ==
    /\ last.op = "get_unique_constraints" /\ last.outcome = "return"
    /\ last.table = T /\ last.schema = S
    /\ \E i, j \in 1..Len(db.native[1].conrows) :
          /\ i < j
          /\ db.native[1].conrows[i].conkey = <<2, 1>>
          /\ db.native[1].conrows[i].attnum = 1
          /\ db.native[1].conrows[j].conkey = <<2, 1>>
          /\ db.native[1].conrows[j].attnum = 2
    /\ \E i \in 1..Len(last.result) : last.result[i].column_names = <<B, A>>

----------------------------------------------------------------------------
(* Check constraints *)

\* the check-constraint rows of the table of the last call, in the order
\* of the catalog
CheckRowsOfLast ==
    LET oid == IF last.schema = S /\ last.table = T THEN 11
               ELSE IF last.schema = S /\ last.table = U THEN 12
               ELSE 0
        Mine(c) == c.conrelid = oid
    IN  SelectSeq(db.checks, Mine)

RECURSIVE ParenDepth(_, _)
\* "(" minus ")" among the first k characters
ParenDepth(body, k) ==
    IF k = 0 THEN 0
    ELSE ParenDepth(body, k - 1)
         + (IF body[k] = "(" THEN 1 ELSE IF body[k] = ")" THEN 0 - 1 ELSE 0)

\* the first character is a "(" whose matching ")" is the last character
WhollyWrapped(body) ==
    /\ Len(body) >= 2
    /\ body[1] = "(" /\ body[Len(body)] = ")"
    /\ \A k \in 1..(Len(body) - 1) : ParenDepth(body, k) >= 1
    /\ ParenDepth(body, Len(body)) = 0

\* a body the claim speaks about without doubt: its parentheses balance,
\* no space around it, and something between its outer parentheses
PlainBody(body) ==
    /\ ~IsSpace(body[1]) /\ ~IsSpace(body[Len(body)])
    /\ body # <<"(", ")">>
    /\ \A k \in 1..Len(body) : ParenDepth(body, k) >= 0
    /\ ParenDepth(body, Len(body)) = 0

\* C13: for a source CHECK (<body>), with or without NOT VALID, sqltext is
\* <body> without its outer parenthesis pair when <body> is wholly wrapped
\* in one matching pair, and <body> unchanged when it is not
C13_StripsRedundantPair ==
    (last.op = "get_check_constraints" /\ last.outcome = "return")
        => \A i \in 1..Len(CheckRowsOfLast) :
              (CheckRowsOfLast[i].wellformed
                    /\ PlainBody(CheckRowsOfLast[i].body))
                 => last.result[i].sqltext
                      = IF WhollyWrapped(CheckRowsOfLast[i].body)
                        THEN SubSeq(CheckRowsOfLast[i].body, 2,
                                    Len(CheckRowsOfLast[i].body) - 1)
                        ELSE CheckRowsOfLast[i].body

\* C14: get_check_constraints returns one entry for each check-constraint
\* row, in row order and under the row's name; a source outside the
\* grammar gives sqltext '' and leaves the other entries alone; an entry
\* has dialect_options not_valid = True exactly when its source matched
\* with the NOT VALID marker
C14_OneEntryPerCheckRow ==
    (last.op = "get_check_constraints" /\ last.outcome = "return")
        => /\ Len(last.result) = Len(CheckRowsOfLast)
           /\ \A i \in 1..Len(CheckRowsOfLast) :
                /\ last.result[i].name = CheckRowsOfLast[i].name
                /\ (last.result[i].sqltext = <<>>)
                      <=> ~CheckRowsOfLast[i].wellformed
                /\ ("dialect_options" \in DOMAIN last.result[i])
                      <=> (/\ CheckRowsOfLast[i].wellformed
                           /\ CheckRowsOfLast[i].not_valid)
                /\ ("dialect_options" \in DOMAIN last.result[i])
                      => last.result[i].dialect_options.not_valid

\* a malformed source before a NOT VALID one: two entries, the first with
\* an empty sqltext, the second parsed and marked
C14_Witness ==
    /\ last.op = "get_check_constraints" /\ last.outcome = "return"
    /\ Len(CheckRowsOfLast) = 2
    /\ ~CheckRowsOfLast[1].wellformed
    /\ Len(last.result) = 2
    /\ last.result[1].sqltext = <<>>
    /\ last.result[2].sqltext = <<"a", "(", "a", ")">>
    /\ "dialect_options" \in DOMAIN last.result[2]

----------------------------------------------------------------------------
(* Table options *)

\* the columns of s.t that have a sort key, and the key of each by name
SortKeyColumns == {c \in Range(db.native[1].cols) : c.sortkey # 0}

SortKeyOf(name) ==
    Abs((CHOOSE c \in SortKeyColumns : c.name = name).sortkey)

\* names lists the sort key columns, each once, by ascending absolute key
AscendingSortKey(names) ==
    /\ Len(names) = Cardinality(SortKeyColumns)
    /\ Range(names) = {c.name : c \in SortKeyColumns}
    /\ \A i, j \in 1..Len(names) :
          i < j => SortKeyOf(names[i]) < SortKeyOf(names[j])

\* C15: get_table_options lists the columns with a non-zero sort key by
\* ascending absolute sort key; the list is redshift_interleaved_sortkey
\* (redshift_sortkey None) if one of the keys is negative, and
\* redshift_sortkey (redshift_interleaved_sortkey None) if all are positive
C15_SortKeyOrder ==
    (/\ last.op = "get_table_options" /\ last.outcome = "return"
     /\ last.table = T /\ last.schema \in {S, SQ})
        => IF \E c \in SortKeyColumns : c.sortkey < 0
           THEN /\ last.result.redshift_sortkey = None
                /\ AscendingSortKey(last.result.redshift_interleaved_sortkey)
           ELSE /\ last.result.redshift_interleaved_sortkey = None
                /\ AscendingSortKey(last.result.redshift_sortkey)

\* b is first and a second in an interleaved sort key
C15_Witness ==
    /\ last.op = "get_table_options" /\ last.outcome = "return"
    /\ last.table = T /\ last.schema = S
    /\ db.native[1].cols[1].sortkey = 0 - 2
    /\ db.native[1].cols[2].sortkey = 1
    /\ last.result.redshift_interleaved_sortkey = <<B, A>>
    /\ last.result.redshift_sortkey = None

----------------------------------------------------------------------------
(* Columns *)

\* the column of s.t with the given attnum
ColumnAt(n) == CHOOSE c \in Range(db.native[1].cols) : c.attnum = n

\* C16: get_columns returns one resolved column for each column row of the
\* table, in ascending attnum: the i-th has the name of the i-th row, none
\* is dropped, doubled or moved
C16_ColumnsInAttnumOrder ==
    (/\ last.op = "get_columns" /\ last.outcome = "return"
     /\ last.table = T /\ last.schema \in {S, SQ})
        => /\ Len(last.result) = Len(db.native[1].cols)
           /\ \A i \in 1..Len(last.result) :
                last.result[i].name = ColumnAt(i).name

\* the catalog stores b before a, and a is the first column returned
C16_Witness ==
    /\ last.op = "get_columns" /\ last.outcome = "return"
    /\ last.table = T /\ last.schema = S
    /\ db.native[1].cols[1].name = B
    /\ Len(last.result) = 2
    /\ last.result[1].name = A /\ last.result[2].name = B

\* the VARCHAR of length n, as get_columns reports it
Varchar(n) == [ctor |-> "VARCHAR", args |-> <<n>>, array |-> FALSE]

\* C19: a column whose format_type is 'character varying' without a length
\* resolves to NullType, and 'character varying(n)' to a VARCHAR of
\* length n
C19_VarcharWithoutLength ==
    (/\ last.op = "get_columns" /\ last.outcome = "return"
     /\ last.table = T /\ last.schema \in {S, SQ})
        => \A i \in 1..Len(last.result) :
              /\ ColumnAt(i).format_type.text = <<VC>>
                    => last.result[i].type = NullType
              /\ ColumnAt(i).format_type.text = <<VC, "(", "2", ")">>
                    => last.result[i].type = Varchar(2)
              /\ ColumnAt(i).format_type.text = <<VC, "(", "1", "2", ")">>
                    => last.result[i].type = Varchar(12)

\* one column of each kind in one table
C19_Witness ==
    /\ last.op = "get_columns" /\ last.outcome = "return"
    /\ last.table = T /\ last.schema = S
    /\ ColumnAt(1).format_type.text = <<VC>>
    /\ ColumnAt(2).format_type.text = <<VC, "(", "1", "2", ")">>
    /\ last.result[1].type = NullType
    /\ last.result[2].type = Varchar(12)

----------------------------------------------------------------------------
(* Relations *)

\* the relations of the catalog sources in a schema, as (name, relkind)
RelationsIn(schema) ==
    {<<db.native[i].name, db.native[i].relkind>> :
        i \in {j \in 1..Len(db.native) : db.native[j].schema = schema}}
    \cup {<<db.external[i].name, "r">> :
            i \in {j \in 1..Len(db.external) : db.external[j].schema = schema}}
    \cup {<<db.datashare[i].name, "r">> :
            i \in {j \in 1..Len(db.datashare) :
                      db.datashare[j].database \o <<".">>
                        \o db.datashare[j].schema = schema}}

RequestedSchema ==
    IF last.schema = None \/ last.schema = <<>> THEN DefaultSchema
    ELSE last.schema

\* C17: has_table returns True if and only if the relations query for the
\* schema (the default schema when none is given) and the table name
\* returns a row, and False, without an error, when it returns none
C17_HasTableIffRow ==
    (last.op = "has_table" /\ last.fails = {})
        => /\ last.outcome = "return"
           /\ last.result
                <=> \E r \in RelationsIn(RequestedSchema) : r[1] = last.table

\* both answers, for a table that is there and for one that is not
C17_Witness ==
    /\ last.op = "has_table" /\ last.outcome = "return"
    /\ last.table = U /\ last.schema = S
    /\ ~last.result
    /\ \E r \in RelationsIn(S) : r[1] = T

\* the relations of a kind in the requested schema, as the catalog has them
RelationsOfKind(relkind) ==
    {r \in RelationsIn(RequestedSchema) : r[2] = relkind}

KindListed == IF last.op = "get_table_names" THEN "r" ELSE "v"

\* the list the other of the two methods gives for the same schema
OtherList ==
    IF last.op = "get_table_names"
    THEN get_view_names(db, _domains, EmptyCache, FALSE, {}, last.schema)
    ELSE get_table_names(db, _domains, EmptyCache, FALSE, {}, last.schema)

\* C20: get_table_names (get_view_names) returns exactly the names, one
\* level of double quotes removed, of the relations of the requested schema
\* (the default schema when none is given) whose relkind is 'r' ('v'); no
\* relation is in both lists and a relation of another kind is in neither
C20_NamesByKind ==
    last.op \in {"get_table_names", "get_view_names"}
        => /\ last.outcome = "return"
           /\ {last.result[i] : i \in 1..Len(last.result)}
                = {unquote(r[1]) : r \in RelationsOfKind(KindListed)}
           /\ Len(last.result) = Cardinality(RelationsOfKind(KindListed))
           /\ \A i \in 1..Len(last.result), j \in 1..Len(OtherList.result) :
                last.result[i] # OtherList.result[j]

\* the tables of a schema that also holds a view and a materialized view,
\* one of the tables stored under a quoted name
C20_Witness ==
    /\ last.op = "get_table_names" /\ last.schema = S
    /\ \E i \in 1..Len(last.result) : last.result[i] = <<"w">>
    /\ RelationsOfKind("r") = {<<QW, "r">>}
    /\ <<T, "m">> \in RelationsIn(S)
    /\ <<U, "v">> \in RelationsIn(S)

----------------------------------------------------------------------------
(* Nullability *)

\* the domains of the catalog on the chain that starts at a type name
RECURSIVE DomainsOnChain(_, _)
DomainsOnChain(attype, fuel) ==
    LET here == {i \in 1..Len(db.domains) : <<db.domains[i].name>> = attype}
    IN  IF fuel = 0 \/ here = {} THEN {}
        ELSE here \cup UNION {DomainsOnChain(db.domains[i].attype.name,
                                             fuel - 1) : i \in here}

\* the loop of _get_column_info has ended and the column_info is built
\* from its state
Resolved == rs.active /\ rs.pc = "break"

\* C18: the resolved column is nullable if and only if its row is not
\* marked not_null and every domain on its chain is nullable; a column
\* marked not_null is never reported nullable
C18_NullabilityOnlyNarrows ==
    Resolved
        => /\ ColumnInfo(rs.col, rs.st).nullable
                <=> /\ ~rs.col.notnull
                    /\ \A i \in DomainsOnChain(rs.col.format_type.name,
                                               Len(db.domains)) :
                           db.domains[i].nullable
           /\ rs.col.notnull => ~ColumnInfo(rs.col, rs.st).nullable

\* a nullable column of the nullable domain d1, which is based on d2, a
\* domain that is not nullable: the column is reported not nullable
C18_Witness ==
    /\ Resolved
    /\ ~rs.col.notnull
    /\ rs.col.format_type.name = <<"d1">>
    /\ db.domains[1].attype.name = <<"d2">> /\ db.domains[1].nullable
    /\ db.domains[2].attype.name = <<"integer">> /\ ~db.domains[2].nullable
    /\ ~ColumnInfo(rs.col, rs.st).nullable

----------------------------------------------------------------------------
(* Text helpers *)

Quoted(x) == x # None /\ Len(x) >= 1 /\ x[1] = Q /\ x[Len(x)] = Q

\* what the claim says of one application: x unchanged, or x without one
\* leading and one trailing double quote, two characters shorter, the
\* latter exactly when x starts and ends with a double quote
UnquoteAsClaimed(x, y) ==
    IF Quoted(x)
    THEN Len(y) = Len(x) - 2 /\ <<Q>> \o y \o <<Q>> = x
    ELSE y = x

\* C26: unquote and RelationKey._unquote return the input unchanged or,
\* exactly when it starts and ends with a double quote, the input without
\* one leading and one trailing double quote (two characters shorter);
\* RelationKey.unquoted applies this to name and schema independently
C26_UnquoteStripsOnePair ==
    /\ last.op \in {"unquote", "_unquote"}
        => UnquoteAsClaimed(last.table, last.result)
    /\ last.op = "unquoted"
        => /\ UnquoteAsClaimed(last.table, last.result.name)
           /\ UnquoteAsClaimed(last.schema, last.result.schema)

\* the schema text the last call of parse_datashare was given
Given == last.schema

IsDatashareText(s) ==
    /\ s # None /\ s # <<>>
    /\ \E i \in 1..Len(s) : s[i] = "."
    /\ \A i \in 1..Len(s) : s[i] # Q

\* C27: parse_datashare reports a datashare if and only if the schema is
\* non-empty, contains a '.' and contains no double quote; in every other
\* case it returns datashare None, the schema unchanged and found False
C27_DatashareIffUnquotedDot ==
    last.op = "parse_datashare"
        => /\ last.result.has_datashare <=> IsDatashareText(Given)
           /\ ~IsDatashareText(Given)
                => /\ last.result.datashare = None
                   /\ last.result.schema = Given

\* a schema with a dot inside double quotes is not a datashare reference
C27_Witness ==
    /\ last.op = "parse_datashare"
    /\ Given = <<Q, ".", Q>>
    /\ ~last.result.has_datashare
    /\ last.result.schema = <<Q, ".", Q>>

\* C30: whenever parse_datashare reports a datashare for a schema text s,
\* the parts it returns satisfy datashare + '.' + schema = s
C30_PartsRebuildSchema ==
    (last.op = "parse_datashare" /\ last.result.has_datashare)
        => last.result.datashare \o <<".">> \o last.result.schema = Given

----------------------------------------------------------------------------
(* Sort key fields *)

\* the one of the two sort key fields that is populated
PopulatedSortKey ==
    IF last.result.redshift_interleaved_sortkey # None
    THEN last.result.redshift_interleaved_sortkey
    ELSE last.result.redshift_sortkey

Occurrences(names, name) ==
    Cardinality({i \in 1..Len(names) : names[i] = name})

\* C29: get_table_options returns at most one of redshift_sortkey and
\* redshift_interleaved_sortkey as a value other than None; every column
\* with a non-zero sort key is exactly once in the populated one and no
\* column with sort key 0 is in either; with no sort key column
\* redshift_sortkey is the empty tuple and redshift_interleaved_sortkey None
C29_OneSortKeyField ==
    (/\ last.op = "get_table_options" /\ last.outcome = "return"
     /\ last.table = T /\ last.schema \in {S, SQ})
        => /\ \/ last.result.redshift_sortkey = None
              \/ last.result.redshift_interleaved_sortkey = None
           /\ PopulatedSortKey # None
           /\ \A c \in Range(db.native[1].cols) :
                Occurrences(PopulatedSortKey, c.name)
                    = IF c.sortkey # 0 THEN 1 ELSE 0
           /\ SortKeyColumns = {}
                => /\ last.result.redshift_sortkey = <<>>
                   /\ last.result.redshift_interleaved_sortkey = None

\* a alone is the interleaved sort key; b, whose sort key is 0, is in
\* neither field
C29_Witness ==
    /\ last.op = "get_table_options" /\ last.outcome = "return"
    /\ last.table = T /\ last.schema = S
    /\ db.native[1].cols[1].sortkey = 0 - 1
    /\ db.native[1].cols[2].sortkey = 0
    /\ last.result.redshift_interleaved_sortkey = <<A>>
    /\ last.result.redshift_sortkey = None

----------------------------------------------------------------------------
(* Bulk results *)

\* the lookups of the last call into the result of the constraints query
ConstraintLookups ==
    {i \in 1..Len(last.lookups) : last.lookups[i].kind = "constraints"}

\* the keys of a bulk result that name an external table of the catalog
ExternalKeys(all) ==
    {k \in DOMAIN all :
        \E i \in 1..Len(db.external) :
            /\ db.external[i].name = k.name
            /\ db.external[i].schema = k.schema}

\* C25: in the result of the constraints query every external table has
\* exactly one synthetic primary-key row, named '<table>_pkey', however
\* many columns the table has
C25_OneSyntheticPkRow ==
    \A i \in ConstraintLookups :
        \A k \in ExternalKeys(last.lookups[i].all) :
            /\ Len(last.lookups[i].all[k]) = 1
            /\ last.lookups[i].all[k][1].contype = "p"
            /\ last.lookups[i].all[k][1].conname = k.name \o W_PKEY

\* the decorated bulk method behind each kind of lookup
BulkMethod(kind) ==
    CASE kind = "relation" -> "_get_all_relation_info"
      [] kind = "columns" -> "_get_schema_column_info"
      [] kind = "constraints" -> "_get_all_constraint_info"

\* C23: no reflection call modifies a cached bulk result: after a call
\* that shares the info_cache, every relation, column and constraint
\* mapping in the cache has the keys and the rows of the bulk result the
\* call was handed
C23_CachedBulkUnchanged ==
    (last.ic /\ last.outcome = "return")
        => \A i \in 1..Len(last.lookups) :
             <<BulkMethod(last.lookups[i].kind), last.table, last.schema>>
                 \in DOMAIN info_cache
               => info_cache[<<BulkMethod(last.lookups[i].kind), last.table,
                               last.schema>>].v = last.lookups[i].all

----------------------------------------------------------------------------
(* Failing queries *)

\* the last call has no result in the info_cache
NothingStored ==
    last.ic
        => \/ <<last.op, last.table, last.schema>> \notin DOMAIN info_cache
           \/ info_cache[<<last.op, last.table, last.schema>>].isNone

\* C22: a catalog query other than the oid cast of get_table_oid that
\* fails is executed exactly once, its error is the outcome of the
\* operation, and the operation returns no result
C22_FailedQueryRaisesOnce ==
    \A k \in QueryKinds \ {"oid_cast"} :
        (k \in last.fails /\ last.nq[k] > 0)
            => /\ last.nq[k] = 1
               /\ last.outcome = "QueryError"
               /\ last.result = <<>>
               /\ NothingStored

\* get_columns whose columns query ran and whose domain query failed
C22_Witness ==
    /\ last.op = "get_columns" /\ last.fails = {"domains"}
    /\ last.nq["columns"] = 1 /\ last.nq["domains"] = 1
    /\ last.outcome = "QueryError"

\* the datashare name parse_datashare finds in the schema as supplied,
\* None when it finds none
Determination ==
    IF IsDatashareText(Given) THEN parse_datashare(Given).datashare ELSE None

\* C28: for every schema text the relations, the columns and the
\* constraints query make the datashare determination of parse_datashare
\* applied to the text as supplied, and filter by the same datashare name
C28_SameDatashareDetermination ==
    last.op = "datashare_clause"
        => /\ last.result.relations = Determination
           /\ last.result.columns = Determination
           /\ last.result.constraints = Determination

----------------------------------------------------------------------------
(* Racing get_columns calls *)

\* the mapping one whole run of the domain query gives
CompleteDomains == LoadDomains(db.domains)

\* get_columns of a request, run alone on a fresh dialect instance
Alone(rq) == get_columns(db, NoDomains, EmptyCache, FALSE, {}, rq[1], rq[2])

\* C24: while two get_columns calls interleave, self._domains is its
\* initial unset value or a complete domain mapping, never a partly built
\* one; each call resolves its columns against a complete mapping; and the
\* race has no effect but that the domain query may run once for each call
C24_DomainCacheNeverPartial ==
    /\ _domains = NoDomains
         \/ (_domains.loaded /\ _domains.map = CompleteDomains)
    /\ \A t \in Threads :
         /\ rs.call[t].pc \in {"resolve", "done"}
              => /\ rs.call[t].domains.loaded
                 /\ rs.call[t].domains.map = CompleteDomains
         /\ rs.call[t].pc = "done"
              => rs.call[t].result = Alone(rs.call[t].rq).result
         /\ rs.call[t].loads <= 1
    /\ domainLoads <= Cardinality(Threads)

\* both calls ran the domain query, the second one storing its mapping
\* after the first had read its own
C24_Witness ==
    /\ domainLoads = 2
    /\ \A t \in Threads : rs.call[t].pc = "done"
    /\ rs.call[1].rq = <<T, S>>
    /\ DOMAIN CompleteDomains # {}
    /\ rs.call[1].result[2].nullable = FALSE

----------------------------------------------------------------------------
(* Sequence-linked defaults *)

\* the default was written as nextval('<name>'<rest>, with a name of at
\* least one character and a rest on the same line
NamesSequence(g) ==
    /\ g.known
    /\ g.q = <<"'">> /\ g.n # <<>>
    /\ g.t \in {<<>>, <<")">>, <<LF>>}

IntegerFamily(type) == type \in {<<"integer">>, <<"bigint">>}

\* C21: autoincrement is true if and only if an identity spec is present,
\* or the default matches nextval('...') and the resolved type is of the
\* integer family; when the default matches and the sequence name has no
\* '.', the returned default has the sequence name prefixed with the
\* column's schema in double quotes
C21_AutoincrementAndDefault ==
    last.op = "_get_column_info"
        => /\ last.result.autoincrement
                <=> \/ last.prior.identity # None
                    \/ /\ NamesSequence(last.prior.parts)
                       /\ IntegerFamily(last.prior.type)
           /\ (/\ NamesSequence(last.prior.parts)
               /\ \A i \in 1..Len(last.prior.parts.n) :
                     last.prior.parts.n[i] # ".")
                => StartsWith(last.result.default,
                              W_NEXTVAL \o <<Q>> \o last.schema \o <<Q, ".">>
                              \o last.prior.parts.n \o <<"'">>)

\* nextval('ss') on an integer column of schema s without an identity
\* spec: autoincrement, and the default names "s".ss
C21_Witness ==
    /\ last.op = "_get_column_info"
    /\ last.prior.identity = None
    /\ last.prior.default = W_NEXTVAL \o <<"s", "s", "'", ")">>
    /\ last.prior.type = <<"integer">>
    /\ last.result.autoincrement
    /\ last.result.default
         = W_NEXTVAL \o <<Q, "s", Q, ".", "s", "s", "'", ")">>

====
